---- MODULE Spec2Model ----
(***************************************************************************)
(* PNG metadata embedding of src/services/imageService.ts:                 *)
(* the CRC-32 table and fold, createChunk, and downloadWithMetadata (text  *)
(* chunk construction, the chunk loop, the blob delivery and the catch     *)
(* block's data-URL fallback).                                             *)
(*                                                                         *)
(* Bytes are naturals 0..255, byte buffers and JavaScript strings are      *)
(* sequences (a string is its sequence of UTF-16 code units).  A 32-bit    *)
(* JavaScript integer (the result of ^ and of the table) is a signed       *)
(* integer in -2^31 .. 2^31-1.  A JavaScript number that may exceed 2^31-1 *)
(* (an unsigned 32-bit value, the cursor) is a record [hi, lo] standing    *)
(* for hi * 65536 + lo, with lo in 0..65535.                               *)
(***************************************************************************)
EXTENDS Integers, Sequences, FiniteSets, TLC

VARIABLES
    base64Data,   \* argument: the image as a base64 string (ASCII codes)
    metadata,     \* argument: the ImageMetadata record
    pc,           \* position in downloadWithMetadata
    bytes,        \* the decoded Uint8Array
    textChunks,   \* the text chunks built so far
    keyIdx,       \* index of the next entry of `keywords` to visit
    pos,          \* the chunk loop's cursor (a wide number)
    parts,        \* the blob parts accumulated so far
    inserted,     \* the `inserted` flag
    clicks,       \* the downloads triggered by this call (link.click)
    history,      \* the completed earlier calls: [input, output]
    crcBuf,       \* crc32 run alone: its argument
    crcI,         \* crc32 run alone: the loop index (0-based)
    crcAcc,       \* crc32 run alone: the accumulator `crc`
    crcRet,       \* crc32 run alone: the value returned
    crcPc,        \* crc32 run alone: position
    table,        \* the module-level array crcTable
    calls,        \* two calls in progress at once: the locals of each
    editor        \* the MetadataEditor component and its parent's record

vars == <<base64Data, metadata, pc, bytes, textChunks, keyIdx, pos, parts,
          inserted, clicks, history, crcBuf, crcI, crcAcc, crcRet, crcPc,
          table, calls, editor>>

callVars == <<base64Data, metadata, pc, bytes, textChunks, keyIdx, pos, parts,
              inserted, clicks, history>>

crcVars == <<crcBuf, crcI, crcAcc, crcRet, crcPc>>

pairVars == <<table, calls>>

---------------------------------------------------------------------------
(* Bounds of the model.                                                    *)

\* The most chunks an enumerated input stream holds.
MaxChunks == 3

\* The most metadata fields that are non-empty in an enumerated record.
MaxFilled == 2

\* The most calls in a chain that feeds each delivered blob to the next call.
MaxPasses == 2

\* The longest byte sequence crc32 is run on alone, besides the test vector.
MaxCrcLen == 2

---------------------------------------------------------------------------
(* JavaScript integer arithmetic.                                          *)

\* F(x) with x evaluated once, before F is applied.
Eval(F(_), x) == CHOOSE r \in {F(v) : v \in {x}} : TRUE

\* Bit i (0 = lowest) of the natural a.
BitOf(a, i) == (a \div (2 ^ i)) % 2

\* x ^ y on two bits.
BitXor(p, q) == IF p = q THEN 0 ELSE 1

\* x ^ y on two 4-bit values.
NibbleXor ==
    [a \in 0..15 |-> [b \in 0..15 |->
        BitXor(BitOf(a, 0), BitOf(b, 0))
        + 2 * BitXor(BitOf(a, 1), BitOf(b, 1))
        + 4 * BitXor(BitOf(a, 2), BitOf(b, 2))
        + 8 * BitXor(BitOf(a, 3), BitOf(b, 3))]]

\* x ^ y on two bytes.
ByteXor(a, b) ==
    16 * NibbleXor[a \div 16][b \div 16] + NibbleXor[a % 16][b % 16]

\* Byte k (0 = lowest) of the two's complement form of the 32-bit integer x.
ByteOf(x, k) == (x \div (256 ^ k)) % 256

\* The signed 32-bit integer with the four bytes b3 (highest) .. b0.
Int32Of(b3, b2, b1, b0) ==
    (IF b3 >= 128 THEN b3 - 256 ELSE b3) * 16777216
        + b2 * 65536 + b1 * 256 + b0

\* x ^ y of JavaScript: the operands as 32-bit integers, a signed result.
Xor32(x, y) ==
    Int32Of(ByteXor(ByteOf(x, 3), ByteOf(y, 3)),
            ByteXor(ByteOf(x, 2), ByteOf(y, 2)),
            ByteXor(ByteOf(x, 1), ByteOf(y, 1)),
            ByteXor(ByteOf(x, 0), ByteOf(y, 0)))

\* x >>> n of JavaScript for n in 1..31: the unsigned shift, which is < 2^31.
Ushr(x, n) ==
    LET q == x \div (2 ^ n)
    IN  IF q >= 0 THEN q ELSE (q + 2 ^ (31 - n)) + 2 ^ (31 - n)

\* The return value without >>> 0: the signed integer's own high half.
MutToUint32(x) == [hi |-> x \div 65536, lo |-> x % 65536]

\* x >>> 0 of JavaScript: the 32-bit integer x read as unsigned (wide).
ToUint32(x) == [hi |-> (x \div 65536) % 65536, lo |-> x % 65536]

\* A natural below 2^31 as a wide number.
Wide(n) == [hi |-> n \div 65536, lo |-> n % 65536]

\* a + b on wide numbers.
WideAdd(a, b) ==
    [hi |-> a.hi + b.hi + ((a.lo + b.lo) \div 65536),
     lo |-> (a.lo + b.lo) % 65536]

\* a < b on wide numbers.
WideLess(a, b) == a.hi < b.hi \/ (a.hi = b.hi /\ a.lo < b.lo)

\* The natural a wide number below 2^31 stands for.
WideVal(a) == a.hi * 65536 + a.lo

---------------------------------------------------------------------------
(* The CRC-32 table and crc32.                                             *)

\* The literal 0xedb88320 as the 32-bit integer ^ makes of it.
Polynomial == Int32Of(237, 184, 131, 32)

\* The pass with the sign-keeping shift c >> 1 in place of c >>> 1.
MutTableStep(c) ==
    IF c % 2 = 1 THEN Xor32(Polynomial, c \div 2) ELSE c \div 2

\* One pass of the inner loop over k: c & 1 selects the branch.
TableStep(c) == IF c % 2 = 1 THEN Xor32(Polynomial, Ushr(c, 1)) ELSE Ushr(c, 1)

\* crcTable[n] as the outer loop's body computes it: eight passes from c = n.
TableEntry(n) ==
    TableStep(TableStep(TableStep(TableStep(
        TableStep(TableStep(TableStep(TableStep(n))))))))

\* The table as the module's initialisation leaves it.
crcTable == [n \in 0..255 |-> TableEntry(n)]

\* The loop body with the table indexed by the byte alone.
MutCrcStep(crc, b) == Xor32(Ushr(crc, 8), table[b])

\* The body of crc32's loop: the accumulator after byte b, read off the
\* module-level table.
CrcStep(crc, b) == Xor32(Ushr(crc, 8), table[Xor32(crc, b) % 256])

\* crc32's initial accumulator, 0 ^ (-1).
CrcStart == Xor32(0, -1)

\* crc32's return value for the final accumulator: (crc ^ (-1)) >>> 0.
CrcFinish(crc) == ToUint32(Xor32(crc, -1))

RECURSIVE CrcFold(_, _, _, _)
\* The accumulator after the loop ran over buf[lo..hi] (1-based) from the
\* accumulator crc.  The range is folded left to right; it is split in two
\* halves, the first evaluated before the second, to keep the evaluation flat.
CrcFold(buf, lo, hi, crc) ==
    IF lo > hi THEN crc
    ELSE IF lo = hi THEN CrcStep(crc, buf[lo])
    ELSE LET mid == (lo + hi) \div 2
         IN  CHOOSE r \in {CrcFold(buf, mid + 1, hi, c) :
                              c \in {CrcFold(buf, lo, mid, crc)}} : TRUE

\* crc32(buf), an unsigned 32-bit value (wide).
crc32(buf) ==
    Eval(LAMBDA b : CrcFinish(CrcFold(b, 1, Len(b), CrcStart)), buf)

---------------------------------------------------------------------------
(* crc32 run alone on a byte sequence, one loop iteration per step.        *)

\* ASCII "123456789".
CheckVector == <<49, 50, 51, 52, 53, 54, 55, 56, 57>>

RECURSIVE SeqsUpTo(_, _)
SeqsUpTo(S, n) ==
    IF n = 0 THEN {<<>>}
    ELSE LET shorter == SeqsUpTo(S, n - 1)
         IN  shorter \cup {Append(s, x) : s \in shorter, x \in S}

\* The byte values the enumerated crc32 arguments are made of.
CrcBytes == {0, 1, 73, 128, 255}

CrcInputs == SeqsUpTo(CrcBytes, MaxCrcLen) \cup {CheckVector}

CrcLoop ==
    /\ crcPc = "loop"
    /\ crcI < Len(crcBuf)
    /\ crcAcc' = CrcStep(crcAcc, crcBuf[crcI + 1])
    /\ crcI' = crcI + 1
    /\ UNCHANGED <<crcBuf, crcRet, crcPc>>
    /\ UNCHANGED <<callVars, pairVars, editor>>

CrcReturn ==
    /\ crcPc = "loop"
    /\ crcI >= Len(crcBuf)
    /\ crcRet' = CrcFinish(crcAcc)
    /\ crcPc' = "returned"
    /\ UNCHANGED <<crcBuf, crcI, crcAcc>>
    /\ UNCHANGED <<callVars, pairVars, editor>>

---------------------------------------------------------------------------
(* Strings, base64 and byte buffers.                                       *)

RECURSIVE Concat(_)
\* The concatenation of a sequence of byte sequences (new Blob(parts)).
Concat(ss) == IF ss = <<>> THEN <<>> ELSE Head(ss) \o Concat(Tail(ss))

\* b.slice(from, to) with 0-based natural bounds, clamped to the buffer.
Slice(b, from, to) ==
    LET lo == IF from < Len(b) THEN from ELSE Len(b)
        hi == IF to < Len(b) THEN to ELSE Len(b)
    IN  IF hi <= lo THEN <<>> ELSE SubSeq(b, lo + 1, hi)

\* b[i] (0-based) as a character code: an index past the end reads undefined,
\* which String.fromCharCode turns into code 0.
CharCodeAt(b, i) == IF i < Len(b) THEN b[i + 1] ELSE 0

\* The base64 alphabet value of an ASCII code, or -1 outside the alphabet.
B64Value(c) ==
    IF c >= 65 /\ c <= 90 THEN c - 65
    ELSE IF c >= 97 /\ c <= 122 THEN c - 71
    ELSE IF c >= 48 /\ c <= 57 THEN c + 4
    ELSE IF c = 43 THEN 62
    ELSE IF c = 47 THEN 63
    ELSE -1

\* The ASCII code of a base64 alphabet value.
B64Char(v) ==
    IF v < 26 THEN v + 65
    ELSE IF v < 52 THEN v + 71
    ELSE IF v < 62 THEN v - 4
    ELSE IF v = 62 THEN 43
    ELSE 47

\* ASCII whitespace, which atob removes first: tab, LF, FF, CR, space.
IsAsciiSpace(c) == c \in {9, 10, 12, 13, 32}

\* The string with a trailing "=" or "==" removed when its length is a
\* multiple of 4 (atob's padding rule).
StripPadding(s) ==
    IF Len(s) % 4 /= 0 \/ Len(s) = 0 THEN s
    ELSE IF s[Len(s)] /= 61 THEN s
    ELSE IF s[Len(s) - 1] = 61 THEN SubSeq(s, 1, Len(s) - 2)
    ELSE SubSeq(s, 1, Len(s) - 1)

\* The bytes of a string of alphabet characters, four characters to three
\* bytes; a final group of 2 or 3 characters gives 1 or 2 bytes.
B64Groups(s) ==
    LET n == Len(s)
        outLen == (n \div 4) * 3 + (IF n % 4 = 0 THEN 0 ELSE (n % 4) - 1)
        v(i) == B64Value(s[i])
    IN  [j \in 1..outLen |->
            LET g == 4 * ((j - 1) \div 3)
                k == (j - 1) % 3
            IN  IF k = 0 THEN v(g + 1) * 4 + (v(g + 2) \div 16)
                ELSE IF k = 1 THEN (v(g + 2) % 16) * 16 + (v(g + 3) \div 4)
                ELSE (v(g + 3) % 4) * 64 + v(g + 4)]

\* atob(s): [ok, bytes]; ok is FALSE where atob throws.
Atob(s) ==
    Eval(LAMBDA t :
            IF Len(t) % 4 = 1 \/ \E i \in 1..Len(t) : B64Value(t[i]) = -1
            THEN [ok |-> FALSE, bytes |-> <<>>]
            ELSE [ok |-> TRUE, bytes |-> B64Groups(t)],
         StripPadding(SelectSeq(s, LAMBDA c : ~IsAsciiSpace(c))))

\* The padded base64 string of a byte sequence, as the image arrives.
Btoa(b) ==
    LET n == Len(b)
        at(i) == IF i <= n THEN b[i] ELSE 0
    IN  [i \in 1..(4 * ((n + 2) \div 3)) |->
            LET g == 3 * ((i - 1) \div 4)
                k == (i - 1) % 4
            IN  IF k = 0 THEN B64Char(at(g + 1) \div 4)
                ELSE IF k = 1
                THEN B64Char((at(g + 1) % 4) * 16 + (at(g + 2) \div 16))
                ELSE IF k = 2
                THEN IF g + 2 > n THEN 61
                     ELSE B64Char((at(g + 2) % 16) * 4 + (at(g + 3) \div 64))
                ELSE IF g + 3 > n THEN 61 ELSE B64Char(at(g + 3) % 64)]

RECURSIVE ConcatRange(_, _, _)
\* ss[lo] \o ... \o ss[hi], split in halves so that long strings stay
\* shallow.
ConcatRange(ss, lo, hi) ==
    IF lo > hi THEN <<>>
    ELSE IF lo = hi THEN ss[lo]
    ELSE LET mid == (lo + hi) \div 2
         IN  ConcatRange(ss, lo, mid) \o ConcatRange(ss, mid + 1, hi)

IsHighSurrogate(u) == u >= 55296 /\ u <= 56319
IsLowSurrogate(u) == u >= 56320 /\ u <= 57343

\* The bytes TextEncoder writes for the code unit at index i of s: a high
\* surrogate followed by a low one gives the 4 bytes of the pair and the low
\* one after it gives none; a lone surrogate gives U+FFFD.
Utf8At(s, i) ==
    LET u == s[i]
    IN  IF u < 128 THEN <<u>>
        ELSE IF u < 2048 THEN <<192 + u \div 64, 128 + (u % 64)>>
        ELSE IF IsHighSurrogate(u) /\ i < Len(s) /\ IsLowSurrogate(s[i + 1])
        THEN LET cp == 65536 + (u - 55296) * 1024 + (s[i + 1] - 56320)
             IN  <<240 + cp \div 262144, 128 + ((cp \div 4096) % 64),
                   128 + ((cp \div 64) % 64), 128 + (cp % 64)>>
        ELSE IF IsLowSurrogate(u) /\ i > 1 /\ IsHighSurrogate(s[i - 1])
        THEN <<>>
        ELSE IF IsHighSurrogate(u) \/ IsLowSurrogate(u) THEN <<239, 191, 189>>
        ELSE <<224 + u \div 4096, 128 + ((u \div 64) % 64), 128 + (u % 64)>>

\* new TextEncoder().encode(s) for a string of UTF-16 code units.
Utf8Encode(s) ==
    Eval(LAMBDA ss : ConcatRange(ss, 1, Len(ss)),
         Eval(LAMBDA t : [i \in 1..Len(t) |-> Utf8At(t, i)], s))

\* The four bytes of n, little-endian.
MutUint32Bytes(n) ==
    Eval(LAMBDA v : <<v.lo % 256, v.lo \div 256, v.hi % 256,
                      (v.hi % 65536) \div 256>>, n)

\* view.setUint32(_, n, false): the four bytes of n, big-endian.
Uint32Bytes(n) ==
    Eval(LAMBDA v : <<(v.hi % 65536) \div 256, v.hi % 256,
                      v.lo \div 256, v.lo % 256>>, n)

\* view.getUint32(p, false) on buffer b at 0-based offset p (p + 4 <= length).
GetUint32(b, p) ==
    [hi |-> b[p + 1] * 256 + b[p + 2], lo |-> b[p + 3] * 256 + b[p + 4]]

---------------------------------------------------------------------------
(* Chunk construction (createChunk and the loop over `keywords`).          *)

\* 'tEXt' and 'IHDR' as character codes.
TypeText == <<116, 69, 88, 116>>
TypeIHDR == <<73, 72, 68, 82>>

\* createChunk with the CRC taken over the data alone.
MutCreateChunk(type, data) ==
    LET length == Len(data)
        typed == [i \in 1..4 |-> type[i] % 256] \o data
    IN  Uint32Bytes(Wide(length)) \o typed \o Uint32Bytes(crc32(data))

\* createChunk(type, data): length, type, data, then the CRC of type ++ data.
createChunk(type, data) ==
    LET length == Len(data)
        typed == [i \in 1..4 |-> type[i] % 256] \o data
    IN  Uint32Bytes(Wide(length)) \o typed \o Uint32Bytes(crc32(typed))

\* The keys of `keywords` as strings.
KeyTitle == <<84, 105, 116, 108, 101>>
KeyAuthor == <<65, 117, 116, 104, 111, 114>>
KeyDescription == <<68, 101, 115, 99, 114, 105, 112, 116, 105, 111, 110>>
KeyCopyright == <<67, 111, 112, 121, 114, 105, 103, 104, 116>>
KeyCreationTime == <<67, 114, 101, 97, 116, 105, 111, 110, 32, 84, 105, 109, 101>>
KeySoftware == <<83, 111, 102, 116, 119, 97, 114, 101>>

\* 'Link2Infographic AI'.
SoftwareValue ==
    <<76, 105, 110, 107, 50, 73, 110, 102, 111, 103, 114, 97, 112, 104, 105,
      99, 32, 65, 73>>

\* The entries without the one for Software.
MutNoSoftwareEntries(m) ==
    << <<KeyTitle, m.title>>,
       <<KeyAuthor, m.author>>,
       <<KeyDescription, m.description>>,
       <<KeyCopyright, m.copyright>>,
       <<KeyCreationTime, m.date>> >>

\* The entries in alphabetical order of their keys.
MutKeywordEntries(m) ==
    << <<KeyAuthor, m.author>>,
       <<KeyCopyright, m.copyright>>,
       <<KeyCreationTime, m.date>>,
       <<KeyDescription, m.description>>,
       <<KeySoftware, SoftwareValue>>,
       <<KeyTitle, m.title>> >>

\* Object.entries(keywords) for metadata record m: the [key, value] pairs in
\* insertion order.  m.keywords has no entry (the block that reads it is empty).
KeywordEntries(m) ==
    << <<KeyTitle, m.title>>,
       <<KeyAuthor, m.author>>,
       <<KeyDescription, m.description>>,
       <<KeyCopyright, m.copyright>>,
       <<KeyCreationTime, m.date>>,
       <<KeySoftware, SoftwareValue>> >>

\* `!value` for a string: only the empty string is falsy.
IsFalsy(value) == value = <<>>

\* The chunk data without the 0 byte between key and value.
MutTextChunkData(key, value) == Utf8Encode(key) \o Utf8Encode(value)

\* The chunk data of one entry: key bytes, a 0 byte, value bytes.
TextChunkData(key, value) == Utf8Encode(key) \o <<0>> \o Utf8Encode(value)

\* The chunk pushed for one entry with a truthy value.
TextChunk(key, value) == createChunk(TypeText, TextChunkData(key, value))

---------------------------------------------------------------------------
(* The arguments the calls are made with.                                  *)

\* The 8 bytes every PNG file starts with, and the first 8 bytes of a JPEG.
PngSignature == <<137, 80, 78, 71, 13, 10, 26, 10>>
JpegStart == <<255, 216, 255, 224, 0, 16, 74, 70>>

\* The three chunks of a 1x1 PNG image, each with its correct CRC.
IhdrChunk ==
    <<0, 0, 0, 13, 73, 72, 68, 82, 0, 0, 0, 1, 0, 0, 0, 1, 8, 6, 0, 0, 0,
      31, 21, 196, 137>>
IdatChunk ==
    <<0, 0, 0, 10, 73, 68, 65, 84, 120, 156, 99, 0, 1, 0, 0, 5, 0, 1,
      13, 10, 45, 180>>
IendChunk == <<0, 0, 0, 0, 73, 69, 78, 68, 174, 66, 96, 130>>

ChunkPalette == {IhdrChunk, IdatChunk, IendChunk}

\* The start of an IDAT chunk that declares 2^32 - 1 data bytes and has 2.
HugeLenTail == <<255, 255, 255, 255, 73, 68, 65, 84, 1, 2>>

\* What may follow the last complete chunk: nothing, one stray byte, an IDAT
\* chunk cut after 2 of its 10 data bytes, an IHDR chunk cut after 2 of 13,
\* a chunk of the largest declarable length.
Tails ==
    {<<>>, <<0>>, SubSeq(IdatChunk, 1, 10), SubSeq(IhdrChunk, 1, 10),
     HugeLenTail}

\* signature + IHDR + IDAT + IEND.
MinimalPng == PngSignature \o IhdrChunk \o IdatChunk \o IendChunk

\* The IDAT chunk with its last CRC byte changed, and a PNG holding it.
IdatBadCrc == [IdatChunk EXCEPT ![Len(IdatChunk)] = 181]
BadCrcPng == PngSignature \o IhdrChunk \o IdatBadCrc \o IendChunk

\* Byte streams handed to the encoder: a PNG signature, up to MaxChunks
\* chunks and a tail; the same chunks after a foreign signature; and streams
\* shorter than a signature.
Streams ==
    {PngSignature \o Concat(cs) \o tail :
        cs \in SeqsUpTo(ChunkPalette, MaxChunks), tail \in Tails}
    \cup {JpegStart \o Concat(cs) : cs \in SeqsUpTo(ChunkPalette, MaxChunks)}
    \cup {<<>>, SubSeq(PngSignature, 1, 4), BadCrcPng}
    \cup {MinimalPng \o <<0, 0>>, MinimalPng \o <<0, 0, 0>>}

\* Strings that are not base64: "!!!!" and "A".
NotBase64 == {<<33, 33, 33, 33>>, <<65>>}

\* Field values: empty, "Demo", one space, and the two characters U+6D4B
\* U+8BD5.
ValDemo == <<68, 101, 109, 111>>
ValBlank == <<32>>
ValCjk == <<27979, 35797>>
FieldValues == {<<>>, ValDemo, ValBlank, ValCjk}

FieldNames ==
    {"title", "author", "description", "keywords", "copyright", "date"}

\* The ImageMetadata records with at most MaxFilled non-empty fields.
MetadataRecords ==
    {m \in [FieldNames -> FieldValues] :
        Cardinality({f \in FieldNames : m[f] /= <<>>}) <= MaxFilled}

EmptyMetadata == [f \in FieldNames |-> <<>>]

\* "caf" and U+00E9, and a title of 300 letters "a".
ValLatin == <<99, 97, 102, 233>>
ValLong == [i \in 1..300 |-> 97]

\* Two more records: a Latin-1 author and a title longer than 255 bytes.
ExtraMetadata ==
    {[EmptyMetadata EXCEPT !.author = ValLatin],
     [EmptyMetadata EXCEPT !.title = ValLong]}

\* title "Demo", description U+6D4B U+8BD5, nothing else.
ScenarioMetadata ==
    [EmptyMetadata EXCEPT !.title = ValDemo, !.description = ValCjk]

---------------------------------------------------------------------------
(* downloadWithMetadata, step by step.                                     *)

\* The state of a call that has not run yet.
Fresh ==
    /\ bytes = <<>>
    /\ textChunks = <<>>
    /\ keyIdx = 0
    /\ pos = Wide(0)
    /\ parts = <<>>
    /\ inserted = FALSE
    /\ clicks = <<>>

CrcIdle ==
    /\ crcBuf = <<>>
    /\ crcI = 0
    /\ crcAcc = 0
    /\ crcRet = Wide(0)
    /\ crcPc = "idle"

\* The module is loaded, and no two calls are in progress at once.
PairIdle ==
    /\ table = crcTable
    /\ calls = <<>>

\* No MetadataEditor is mounted.
EditorIdle == editor = [mounted |-> FALSE]

Init ==
    /\ \/ /\ base64Data \in {Btoa(b) : b \in Streams} \cup NotBase64
          /\ metadata \in {EmptyMetadata, ScenarioMetadata}
       \/ /\ base64Data = Btoa(MinimalPng)
          /\ metadata \in MetadataRecords \cup ExtraMetadata
    /\ pc = "decode"
    /\ history = <<>>
    /\ Fresh
    /\ EditorIdle
    /\ CrcIdle
    /\ PairIdle

\* const binaryString = atob(base64Data) and the copy into `bytes`; atob
\* throws on a string that is not base64.
Decode ==
    /\ pc = "decode"
    /\ LET r == Atob(base64Data)
       IN  IF r.ok
           THEN /\ bytes' = r.bytes
                /\ keyIdx' = 1
                /\ pc' = "keywords"
           ELSE /\ pc' = "catch"
                /\ UNCHANGED <<bytes, keyIdx>>
    /\ UNCHANGED <<base64Data, metadata, textChunks, pos, parts, inserted,
                   clicks, history>>
    /\ UNCHANGED <<crcVars, pairVars, editor>>

\* The loop body without its `continue` on a falsy value.
MutPushTextChunk(chunks, key, value) == Append(chunks, TextChunk(key, value))

\* textChunks after the loop body ran for entry <<key, value>>.
PushTextChunk(chunks, key, value) ==
    IF IsFalsy(value) THEN chunks ELSE Append(chunks, TextChunk(key, value))

\* One iteration of the loop over Object.entries(keywords).
VisitKeyword ==
    /\ pc = "keywords"
    /\ keyIdx <= Len(KeywordEntries(metadata))
    /\ LET entry == KeywordEntries(metadata)[keyIdx]
       IN  textChunks' = PushTextChunk(textChunks, entry[1], entry[2])
    /\ keyIdx' = keyIdx + 1
    /\ UNCHANGED <<base64Data, metadata, pc, bytes, pos, parts, inserted,
                   clicks, history>>
    /\ UNCHANGED <<crcVars, pairVars, editor>>

\* let pos = 8; const parts = [bytes.slice(0, 8)]; let inserted = false.
StartLoop ==
    /\ pc = "keywords"
    /\ keyIdx > Len(KeywordEntries(metadata))
    /\ pos' = Wide(8)
    /\ parts' = <<Slice(bytes, 0, 8)>>
    /\ inserted' = FALSE
    /\ pc' = "loop"
    /\ UNCHANGED <<base64Data, metadata, bytes, textChunks, keyIdx, clicks,
                   history>>
    /\ UNCHANGED <<crcVars, pairVars, editor>>

\* 'IEND' as character codes.
TypeIEND == <<73, 69, 78, 68>>

\* The loop condition with a stop after a chunk of type IEND.
MutInLoop ==
    /\ WideLess(pos, Wide(Len(bytes)))
    /\ ~(/\ Len(parts) > 1
         /\ Len(parts[Len(parts)]) >= 8
         /\ SubSeq(parts[Len(parts)], 5, 8) = TypeIEND)

\* The loop condition pos < bytes.length.
InLoop == WideLess(pos, Wide(Len(bytes)))

\* The type read at 0-based offset p: four character codes.
TypeAt(b, p) ==
    <<CharCodeAt(b, p + 4), CharCodeAt(b, p + 5), CharCodeAt(b, p + 6),
      CharCodeAt(b, p + 7)>>

\* The slice taken from the chunk's data on, without its length and type.
MutSliceTo(b, p, end) ==
    Slice(b, p + 8, IF WideLess(end, Wide(Len(b))) THEN WideVal(end) ELSE Len(b))

\* bytes.slice(p, end) for a wide end.
SliceTo(b, p, end) ==
    Slice(b, p, IF WideLess(end, Wide(Len(b))) THEN WideVal(end) ELSE Len(b))

\* The insertion after the first chunk read, whatever its type.
MutInsertFirst(type, ins) == ~ins

\* The insertion condition without the `inserted` flag.
MutInsertHere(type, ins) == type = TypeIHDR

\* The condition under which the text chunks are pushed after a chunk.
InsertHere(type, ins) == type = TypeIHDR /\ ~ins

\* The text chunks pushed ahead of the chunk instead of after it.
MutPushChunk(ps, chunk, insert, chunks) ==
    (ps \o (IF insert THEN chunks ELSE <<>>)) \o <<chunk>>

\* The chunk pushed with its last 4 bytes replaced by a recomputed CRC.
MutRepairPushChunk(ps, chunk, insert, chunks) ==
    Append(ps, IF Len(chunk) < 12 THEN chunk
               ELSE SubSeq(chunk, 1, Len(chunk) - 4)
                    \o Uint32Bytes(crc32(SubSeq(chunk, 5, Len(chunk) - 4))))
    \o (IF insert THEN chunks ELSE <<>>)

\* `parts` after one chunk was pushed, with the text chunks when told so.
PushChunk(ps, chunk, insert, chunks) ==
    Append(ps, chunk) \o (IF insert THEN chunks ELSE <<>>)

\* totalChunkLen with the 4 CRC bytes left out.
MutTotalChunkLen(chunkLen) == WideAdd(chunkLen, Wide(8))

\* const totalChunkLen = chunkLen + 12: length, type, data and CRC.
TotalChunkLen(chunkLen) == WideAdd(chunkLen, Wide(12))

\* pos += totalChunkLen in 32-bit unsigned arithmetic.
MutAdvance(p, totalChunkLen) ==
    LET sum == WideAdd(p, totalChunkLen)
    IN  [hi |-> sum.hi % 65536, lo |-> sum.lo]

\* pos += totalChunkLen: a Number addition, exact far beyond 2^32.
Advance(p, totalChunkLen) == WideAdd(p, totalChunkLen)

\* One iteration of the chunk loop; getUint32 throws a RangeError when fewer
\* than 4 bytes are left at pos.
ReadChunk ==
    /\ pc = "loop"
    /\ InLoop
    /\ LET p == WideVal(pos)
       IN  IF p + 4 > Len(bytes)
           THEN /\ pc' = "catch"
                /\ UNCHANGED <<pos, parts, inserted>>
           ELSE LET chunkLen == GetUint32(bytes, p)
                    type == TypeAt(bytes, p)
                    totalChunkLen == TotalChunkLen(chunkLen)
                    end == WideAdd(pos, totalChunkLen)
                    chunk == SliceTo(bytes, p, end)
                    insert == InsertHere(type, inserted)
                IN  /\ parts' = PushChunk(parts, chunk, insert, textChunks)
                    /\ inserted' = (inserted \/ insert)
                    /\ pos' = Advance(pos, totalChunkLen)
                    /\ pc' = "loop"
    /\ UNCHANGED <<base64Data, metadata, bytes, textChunks, keyIdx, clicks,
                   history>>
    /\ UNCHANGED <<crcVars, pairVars, editor>>

\* The blob download followed by the catch block, as if the fallback stood
\* in a `finally`.
MutDeliver ==
    /\ pc = "loop"
    /\ ~InLoop
    /\ clicks' = Append(clicks, [kind |-> "blob", data |-> Concat(parts)])
    /\ pc' = "catch"
    /\ UNCHANGED <<base64Data, metadata, bytes, textChunks, keyIdx, pos,
                   parts, inserted, history>>
    /\ UNCHANGED <<crcVars, pairVars, editor>>

\* new Blob(parts) and the click on a link to it.
Deliver ==
    /\ pc = "loop"
    /\ ~InLoop
    /\ clicks' = Append(clicks, [kind |-> "blob", data |-> Concat(parts)])
    /\ pc' = "done"
    /\ UNCHANGED <<base64Data, metadata, bytes, textChunks, keyIdx, pos,
                   parts, inserted, history>>
    /\ UNCHANGED <<crcVars, pairVars, editor>>

\* The catch block delivering what `parts` holds so far as a blob.
MutFallback ==
    /\ pc = "catch"
    /\ clicks' = Append(clicks, [kind |-> "blob", data |-> Concat(parts)])
    /\ pc' = "done"
    /\ UNCHANGED <<base64Data, metadata, bytes, textChunks, keyIdx, pos,
                   parts, inserted, history>>
    /\ UNCHANGED <<crcVars, pairVars, editor>>

\* The catch block: the click on a data URL of the base64 string as given.
Fallback ==
    /\ pc = "catch"
    /\ clicks' = Append(clicks, [kind |-> "dataurl", data |-> base64Data])
    /\ pc' = "done"
    /\ UNCHANGED <<base64Data, metadata, bytes, textChunks, keyIdx, pos,
                   parts, inserted, history>>
    /\ UNCHANGED <<crcVars, pairVars, editor>>

\* The next call started with the text chunks the call before it built, as
\* a module-level `textChunks` array would leave them.
MutReEmbed ==
    /\ pc = "done"
    /\ Len(history) + 1 < MaxPasses
    /\ clicks[Len(clicks)].kind = "blob"
    /\ history' = Append(history,
                         [input |-> bytes, output |-> clicks[Len(clicks)].data,
                          textChunks |-> textChunks])
    /\ base64Data' = Btoa(clicks[Len(clicks)].data)
    /\ pc' = "decode"
    /\ bytes' = <<>>
    /\ textChunks' = textChunks
    /\ keyIdx' = 0
    /\ pos' = Wide(0)
    /\ parts' = <<>>
    /\ inserted' = FALSE
    /\ clicks' = <<>>
    /\ UNCHANGED metadata
    /\ UNCHANGED <<crcVars, pairVars, editor>>

\* A further call with the same metadata on the image the last call
\* delivered as a blob.
ReEmbed ==
    /\ pc = "done"
    /\ Len(history) + 1 < MaxPasses
    /\ clicks[Len(clicks)].kind = "blob"
    /\ history' = Append(history,
                         [input |-> bytes, output |-> clicks[Len(clicks)].data,
                          textChunks |-> textChunks])
    /\ base64Data' = Btoa(clicks[Len(clicks)].data)
    /\ pc' = "decode"
    /\ bytes' = <<>>
    /\ textChunks' = <<>>
    /\ keyIdx' = 0
    /\ pos' = Wide(0)
    /\ parts' = <<>>
    /\ inserted' = FALSE
    /\ clicks' = <<>>
    /\ UNCHANGED metadata
    /\ UNCHANGED <<crcVars, pairVars, editor>>

Next ==
    \/ Decode
    \/ VisitKeyword
    \/ StartLoop
    \/ ReadChunk
    \/ Deliver
    \/ Fallback
    \/ ReEmbed

Spec == Init /\ [][Next]_vars

\* The steps of a call.  The function is synchronous: once called it runs
\* on to its blob download or its catch block.
CallNext ==
    \/ Decode
    \/ VisitKeyword
    \/ StartLoop
    \/ ReadChunk
    \/ Deliver
    \/ Fallback

\* A few inputs for the runs under fairness: a PNG, three IEND chunks and a
\* chunk of the largest declarable length, an IHDR chunk and a stray byte,
\* an IHDR chunk and a cut IDAT chunk, nothing at all, and "!!!!".
LiveStreams ==
    {MinimalPng,
     PngSignature \o IendChunk \o IendChunk \o IendChunk \o HugeLenTail,
     PngSignature \o IhdrChunk \o <<0>>,
     PngSignature \o IhdrChunk \o SubSeq(IdatChunk, 1, 10),
     <<>>}

InitLive ==
    /\ base64Data \in {Btoa(b) : b \in LiveStreams} \cup {<<33, 33, 33, 33>>}
    /\ metadata \in {EmptyMetadata, ScenarioMetadata}
    /\ pc = "decode"
    /\ history = <<>>
    /\ Fresh
    /\ EditorIdle
    /\ CrcIdle
    /\ PairIdle

SpecLive == InitLive /\ [][Next]_vars /\ WF_vars(CallNext)

\* crc32 run alone on each of CrcInputs.
InitCrc ==
    /\ crcBuf \in CrcInputs
    /\ crcI = 0
    /\ crcAcc = CrcStart
    /\ crcRet = Wide(0)
    /\ crcPc = "loop"
    /\ base64Data = <<>>
    /\ metadata = EmptyMetadata
    /\ pc = "idle"
    /\ history = <<>>
    /\ Fresh
    /\ EditorIdle
    /\ PairIdle

NextCrc == CrcLoop \/ CrcReturn

SpecCrc == InitCrc /\ [][NextCrc]_vars

---------------------------------------------------------------------------
(* The module's initialisation: the loop that fills crcTable, one entry    *)
(* per step.  crcI stands for n.                                           *)

\* The number of entries the loop writes (n < 256).
TableSize == 256

\* const crcTable = [] and let n = 0.
InitTable ==
    /\ table = <<>>
    /\ calls = <<>>
    /\ crcBuf = <<>>
    /\ crcI = 0
    /\ crcAcc = 0
    /\ crcRet = Wide(0)
    /\ crcPc = "build"
    /\ base64Data = <<>>
    /\ metadata = EmptyMetadata
    /\ pc = "idle"
    /\ history = <<>>
    /\ Fresh
    /\ EditorIdle

\* One iteration of the outer loop: crcTable[n] = c after the eight passes.
BuildEntry ==
    /\ crcPc = "build"
    /\ crcI < TableSize
    /\ table' = [i \in 0..crcI |->
                    IF i < crcI THEN table[i] ELSE TableEntry(crcI)]
    /\ crcI' = crcI + 1
    /\ UNCHANGED <<crcBuf, crcAcc, crcRet, crcPc, calls>>
    /\ UNCHANGED <<callVars, editor>>

\* The loop is left at n = 256.
BuildDone ==
    /\ crcPc = "build"
    /\ crcI >= TableSize
    /\ crcPc' = "built"
    /\ UNCHANGED <<crcBuf, crcI, crcAcc, crcRet>>
    /\ UNCHANGED <<callVars, pairVars, editor>>

NextTable == BuildEntry \/ BuildDone

SpecTable == InitTable /\ [][NextTable]_vars

---------------------------------------------------------------------------
(* Two calls in progress at once, their steps interleaved.  Each call's    *)
(* arguments and locals are one record; crcTable is the one thing both     *)
(* read.                                                                   *)

CallIds == {1, 2}

\* The arguments and locals of a call that has not run yet.
StartOf(b64, m) ==
    [base64Data |-> b64, metadata |-> m, pc |-> "decode", bytes |-> <<>>,
     textChunks |-> <<>>, keyIdx |-> 0, pos |-> Wide(0), parts |-> <<>>,
     inserted |-> FALSE, clicks |-> <<>>]

\* atob and the copy into `bytes`, on the locals st.
DecodeOf(st) ==
    LET r == Atob(st.base64Data)
    IN  IF r.ok
        THEN [st EXCEPT !.bytes = r.bytes, !.keyIdx = 1, !.pc = "keywords"]
        ELSE [st EXCEPT !.pc = "catch"]

\* One iteration of the loop over Object.entries(keywords), or, after the
\* last entry, the declarations of pos, parts and inserted.
KeywordsOf(st) ==
    IF st.keyIdx <= Len(KeywordEntries(st.metadata))
    THEN LET entry == KeywordEntries(st.metadata)[st.keyIdx]
         IN  [st EXCEPT !.textChunks = PushTextChunk(@, entry[1], entry[2]),
                        !.keyIdx = @ + 1]
    ELSE [st EXCEPT !.pos = Wide(8), !.parts = <<Slice(st.bytes, 0, 8)>>,
                    !.inserted = FALSE, !.pc = "loop"]

\* One iteration of the chunk loop, or, when pos has reached the length,
\* the blob download.
LoopOf(st) ==
    IF ~WideLess(st.pos, Wide(Len(st.bytes)))
    THEN [st EXCEPT !.clicks = Append(@, [kind |-> "blob",
                                          data |-> Concat(st.parts)]),
                    !.pc = "done"]
    ELSE LET p == WideVal(st.pos)
         IN  IF p + 4 > Len(st.bytes) THEN [st EXCEPT !.pc = "catch"]
             ELSE LET totalChunkLen == TotalChunkLen(GetUint32(st.bytes, p))
                      chunk == SliceTo(st.bytes, p,
                                       WideAdd(st.pos, totalChunkLen))
                      insert == InsertHere(TypeAt(st.bytes, p), st.inserted)
                  IN  [st EXCEPT
                          !.parts = PushChunk(@, chunk, insert, st.textChunks),
                          !.inserted = (@ \/ insert),
                          !.pos = Advance(@, totalChunkLen)]

\* The catch block.
CatchOf(st) ==
    [st EXCEPT !.clicks = Append(@, [kind |-> "dataurl",
                                     data |-> st.base64Data]),
               !.pc = "done"]

\* The next step of a call on its locals.
CallStep(st) ==
    CASE st.pc = "decode" -> DecodeOf(st)
      [] st.pc = "keywords" -> KeywordsOf(st)
      [] st.pc = "loop" -> LoopOf(st)
      [] st.pc = "catch" -> CatchOf(st)
      [] OTHER -> st

\* The locals with `parts` read from call 1, as a module-level array would
\* be.
MutLocals(cs, c) == [cs[c] EXCEPT !.parts = cs[1].parts]

\* The locals a step of call c reads: its own (every const and let of
\* downloadWithMetadata is declared inside the function).
Locals(cs, c) == cs[c]

\* atob and the byte copy in call c.
PairDecode(c) ==
    /\ Locals(calls, c).pc = "decode"
    /\ calls' = [calls EXCEPT ![c] = DecodeOf(Locals(calls, c))]
    /\ UNCHANGED <<table, callVars, crcVars, editor>>

\* A step at the keyword loop in call c.
PairKeywords(c) ==
    /\ Locals(calls, c).pc = "keywords"
    /\ calls' = [calls EXCEPT ![c] = KeywordsOf(Locals(calls, c))]
    /\ UNCHANGED <<table, callVars, crcVars, editor>>

\* A step at the chunk loop in call c.
PairLoop(c) ==
    /\ Locals(calls, c).pc = "loop"
    /\ calls' = [calls EXCEPT ![c] = LoopOf(Locals(calls, c))]
    /\ UNCHANGED <<table, callVars, crcVars, editor>>

\* The catch block in call c.
PairCatch(c) ==
    /\ Locals(calls, c).pc = "catch"
    /\ calls' = [calls EXCEPT ![c] = CatchOf(Locals(calls, c))]
    /\ UNCHANGED <<table, callVars, crcVars, editor>>

\* What the two calls are made with.
PairStreams ==
    {MinimalPng, PngSignature \o IendChunk \o IhdrChunk,
     PngSignature \o IhdrChunk \o <<0>>}

PairArguments ==
    ({Btoa(b) : b \in PairStreams} \cup {<<33, 33, 33, 33>>})
        \X {EmptyMetadata, ScenarioMetadata}

InitPair ==
    /\ table = crcTable
    /\ calls \in [CallIds -> {StartOf(a[1], a[2]) : a \in PairArguments}]
    /\ base64Data = <<>>
    /\ metadata = EmptyMetadata
    /\ pc = "idle"
    /\ history = <<>>
    /\ Fresh
    /\ EditorIdle
    /\ CrcIdle

NextPair ==
    \E c \in CallIds :
        \/ PairDecode(c)
        \/ PairKeywords(c)
        \/ PairLoop(c)
        \/ PairCatch(c)

SpecPair == InitPair /\ [][NextPair]_vars

---------------------------------------------------------------------------
(* The MetadataEditor component of src/components/MetadataEditor.tsx and   *)
(* the parent that renders it with its `metadata` state as initialData and *)
(* its setMetadata as onChange.  The file holds the component twice: the   *)
(* current text (lines 16-73) and an earlier text (lines 203-237).         *)
(*                                                                         *)
(* A JavaScript value is a record [t, v]: a string, a literal, undefined,  *)
(* or, for the result of JSON.parse, an object.  An object is the sequence *)
(* of its entries [k, v] in property order, the values being strings and   *)
(* literals.  A text is the sequence of its JSON tokens, white space       *)
(* included; a string token is the string value itself.                    *)

Str(s) == [t |-> "str", v |-> s]
JsNull == [t |-> "lit", v |-> "null"]
JsTrue == [t |-> "lit", v |-> "true"]
Undefined == [t |-> "undef", v |-> ""]
Obj(entries) == [t |-> "obj", v |-> entries]

LBrace == [t |-> "p", v |-> "{"]
RBrace == [t |-> "p", v |-> "}"]
Colon == [t |-> "p", v |-> ":"]
Comma == [t |-> "p", v |-> ","]
Ws == [t |-> "ws", v |-> " "]

\* The keys of ImageMetadata, in the order the component writes them.
FieldOrder ==
    <<"title", "author", "description", "keywords", "copyright", "date">>

Keys(obj) == {obj[i].k : i \in DOMAIN obj}

\* obj[k]: undefined for a key the object does not have.
Get(obj, k) ==
    IF k \in Keys(obj)
    THEN obj[CHOOSE i \in DOMAIN obj : obj[i].k = k].v
    ELSE Undefined

\* { ...obj, [k]: v }: an own key keeps its place, a new key goes last.
Put(obj, k, v) ==
    IF k \in Keys(obj)
    THEN [i \in DOMAIN obj |->
             IF obj[i].k = k THEN [k |-> k, v |-> v] ELSE obj[i]]
    ELSE Append(obj, [k |-> k, v |-> v])

RECURSIVE Spread(_, _)
\* { ...obj, ...src } for the entries src, in their order.
Spread(obj, src) ==
    IF src = <<>> THEN obj
    ELSE Spread(Put(obj, src[1].k, src[1].v), Tail(src))

\* The own enumerable entries a spread copies from a value: those of an
\* object, the characters of a string under their indices (every non-empty
\* string a text of the model holds is one character long), none of a
\* literal.
OwnEntries(value) ==
    CASE value.t = "obj" -> value.v
      [] value.t = "str" /\ value.v /= "" -> <<[k |-> "0", v |-> value]>>
      [] OTHER -> <<>>

\* a ?? b and a || b.
Nullish(a) == a.t = "undef" \/ (a.t = "lit" /\ a.v = "null")
Falsy(a) == Nullish(a) \/ (a.t = "str" /\ a.v = "")
Coalesce(a, b) == IF Nullish(a) THEN b ELSE a
OrElse(a, b) == IF Falsy(a) THEN b ELSE a

\* The entries JSON.stringify writes: a property whose value is undefined
\* is left out.
Written(obj) == SelectSeq(obj, LAMBDA e : e.v.t /= "undef")

\* JSON.stringify(obj).
Stringify(obj) ==
    LET kept == Written(obj)
        Member(i) == (IF i > 1 THEN <<Comma>> ELSE <<>>)
                         \o <<Str(kept[i].k), Colon, kept[i].v>>
    IN  <<LBrace>> \o Concat([i \in 1..Len(kept) |-> Member(i)]) \o <<RBrace>>

\* JSON.stringify(obj, null, 2): each member on a line of its own, a space
\* after the colon.
StringifyIndented(obj) ==
    LET kept == Written(obj)
        Member(i) == (IF i > 1 THEN <<Comma>> ELSE <<>>)
                         \o <<Ws, Str(kept[i].k), Colon, Ws, kept[i].v>>
    IN  IF kept = <<>> THEN <<LBrace, RBrace>>
        ELSE <<LBrace>> \o Concat([i \in 1..Len(kept) |-> Member(i)])
                 \o <<Ws, RBrace>>

\* JSON.parse(text): a string, a literal, or an object of members
\* "key": value separated by commas (a repeated key keeps its first place
\* and its last value); anything else (the empty text, an unclosed brace, a
\* trailing comma, a member without its value) throws.
JsonParse(text) ==
    LET toks == SelectSeq(text, LAMBDA tk : tk.t /= "ws")
        n == Len(toks)
        inner == SubSeq(toks, 2, n - 1)
        IsValue(tk) == tk.t \in {"str", "lit"}
        WellFormed ==
            /\ inner = <<>> \/ Len(inner) % 4 = 3
            /\ \A i \in DOMAIN inner :
                  CASE i % 4 = 1 -> inner[i].t = "str"
                    [] i % 4 = 2 -> inner[i] = Colon
                    [] i % 4 = 3 -> IsValue(inner[i])
                    [] OTHER -> inner[i] = Comma
        members == [j \in 1..((Len(inner) + 1) \div 4) |->
                       [k |-> inner[4 * j - 3].v, v |-> inner[4 * j - 1]]]
    IN  IF n = 1 /\ IsValue(toks[1])
        THEN [ok |-> TRUE, value |-> toks[1]]
        ELSE IF n >= 2 /\ toks[1] = LBrace /\ toks[n] = RBrace /\ WellFormed
        THEN [ok |-> TRUE, value |-> Obj(Spread(<<>>, members))]
        ELSE [ok |-> FALSE, value |-> Undefined]

\* The strings the component takes from the clock at mount.
DefaultCopyright == Str("(c) YEAR Link2Infographic")
DefaultDate == Str("NOW-16")

\* useState's initial form record.
InitialForm(initialData) ==
    <<[k |-> "title", v |-> OrElse(Get(initialData, "title"), Str(""))],
      [k |-> "author",
       v |-> OrElse(Get(initialData, "author"), Str("Link2Infographic User"))],
      [k |-> "description",
       v |-> OrElse(Get(initialData, "description"), Str(""))],
      [k |-> "keywords",
       v |-> OrElse(Get(initialData, "keywords"),
                    Str("infographic, ai-generated, visual-data"))],
      [k |-> "copyright",
       v |-> OrElse(Get(initialData, "copyright"), DefaultCopyright)],
      [k |-> "date", v |-> OrElse(Get(initialData, "date"), DefaultDate)]>>

\* The effect's `merged`: each field from initialData, from the form where
\* initialData has null or nothing.
Merged(initialData, formData) ==
    [i \in 1..Len(FieldOrder) |->
        [k |-> FieldOrder[i],
         v |-> Coalesce(Get(initialData, FieldOrder[i]),
                        Get(formData, FieldOrder[i]))]]

\* The parent's metadata state before anything set it.
ParentMetadata ==
    <<[k |-> "title", v |-> Str("")],
      [k |-> "author", v |-> Str("Link2Infographic")],
      [k |-> "description", v |-> Str("")],
      [k |-> "keywords", v |-> Str("")],
      [k |-> "copyright", v |-> Str("")],
      [k |-> "date", v |-> Str("NOW")]>>

\* The title the parent sets when a 3D rendering arrives.
ModelTitle == Str("M")

\* What is typed into a field, and the texts typed into the JSON box: texts
\* that parse (objects over own and foreign keys, with null, with a key
\* twice, a string, a literal), texts that do not, and the complete text in
\* the box with its closing brace deleted.
TypedValues == {"A"}

TypedTexts ==
    {Stringify(<<[k |-> "title", v |-> Str("B")]>>),
     StringifyIndented(<<[k |-> "date", v |-> Str("B")],
                         [k |-> "title", v |-> JsNull]>>),
     Stringify(<<[k |-> "rating", v |-> JsTrue]>>),
     <<LBrace, Str("title"), Colon, Str("A"), Comma,
       Str("title"), Colon, Str("B"), RBrace>>,
     <<Str("A")>>,
     <<JsNull>>,
     <<>>,
     <<LBrace>>,
     <<LBrace, Str("title"), Colon, Str("A"), Comma, RBrace>>}

Texts(jsonInput) ==
    TypedTexts \cup
        (IF jsonInput /= <<>> /\ jsonInput[Len(jsonInput)] = RBrace
         THEN {SubSeq(jsonInput, 1, Len(jsonInput) - 1)}
         ELSE {})

\* The event a handler was called with.
NoEvent == [field |-> "", value |-> "", text |-> <<>>]

\* The component after its first render, its mount effect still to run.
\* The current text starts with an empty JSON box and an empty ref, the
\* earlier text with the form record in the box.
Mounted(copy, initialData) ==
    [mounted |-> TRUE,
     copy |-> copy,
     initialData |-> initialData,
     formData |-> InitialForm(initialData),
     jsonInput |-> IF copy = 1 THEN <<>>
                   ELSE StringifyIndented(InitialForm(initialData)),
     jsonError |-> JsNull,
     lastUpdateRef |-> <<>>,
     pending |-> TRUE,
     last |-> "mount",
     cause |-> "",
     event |-> NoEvent,
     notified |-> <<>>]

\* A handler begins: nothing notified yet by this step.
Handling(e, kind, event) ==
    [e EXCEPT !.last = kind, !.cause = e.last, !.event = event,
              !.notified = <<>>]

\* onChange(next) with the parent's setMetadata as onChange: the parent's
\* state becomes next and comes back as the initialData prop, a new object,
\* so that the current text's effect is due.
OnChange(e, next) ==
    [e EXCEPT !.notified = Append(@, next),
              !.initialData = next,
              !.pending = (@ \/ e.copy = 1)]

\* The current text's effect on [initialData].
SyncFromParent ==
    /\ editor.mounted
    /\ editor.copy = 1
    /\ editor.pending
    /\ LET e == Handling(editor, "effect", NoEvent)
           merged == Merged(e.initialData, e.formData)
           str == Stringify(merged)
       IN  editor' =
              IF str /= e.lastUpdateRef
              THEN [e EXCEPT !.lastUpdateRef = str,
                             !.formData = merged,
                             !.jsonInput = StringifyIndented(merged),
                             !.pending = FALSE]
              ELSE [e EXCEPT !.pending = FALSE]
    /\ UNCHANGED <<callVars, crcVars, pairVars>>

\* handleFieldChange with the text's last line an onChange of the record
\* before the edit.
MutHandleFieldChange(field, value) ==
    /\ editor.mounted
    /\ editor.copy = 1
    /\ ~editor.pending
    /\ LET e == Handling(editor, "field",
                         [field |-> field, value |-> value, text |-> <<>>])
           next == Put(e.formData, field, Str(value))
       IN  editor' =
              OnChange([e EXCEPT !.formData = next,
                                 !.jsonInput = StringifyIndented(next),
                                 !.lastUpdateRef = Stringify(next)],
                       e.formData)
    /\ UNCHANGED <<callVars, crcVars, pairVars>>

\* handleFieldChange(field, value) of the current text.
handleFieldChange(field, value) ==
    /\ editor.mounted
    /\ editor.copy = 1
    /\ ~editor.pending
    /\ LET e == Handling(editor, "field",
                         [field |-> field, value |-> value, text |-> <<>>])
           next == Put(e.formData, field, Str(value))
       IN  editor' =
              OnChange([e EXCEPT !.formData = next,
                                 !.jsonInput = StringifyIndented(next),
                                 !.lastUpdateRef = Stringify(next)],
                       next)
    /\ UNCHANGED <<callVars, crcVars, pairVars>>

\* handleJsonChange with the merge and the notification done before the
\* parse is known to have succeeded.
MutHandleJsonChange(text) ==
    /\ editor.mounted
    /\ editor.copy = 1
    /\ ~editor.pending
    /\ LET e == [Handling(editor, "json",
                          [field |-> "", value |-> "", text |-> text])
                     EXCEPT !.jsonInput = text]
           parsed == JsonParse(text)
           next == Spread(e.formData, OwnEntries(parsed.value))
       IN  editor' =
              IF parsed.ok
              THEN OnChange([e EXCEPT !.formData = next,
                                      !.jsonError = JsNull,
                                      !.lastUpdateRef = Stringify(next)],
                            next)
              ELSE OnChange([e EXCEPT !.jsonError = Str("JSON invalid")],
                            e.formData)
    /\ UNCHANGED <<callVars, crcVars, pairVars>>

\* handleJsonChange of the current text, called with the box's new text.
handleJsonChange(text) ==
    /\ editor.mounted
    /\ editor.copy = 1
    /\ ~editor.pending
    /\ LET e == [Handling(editor, "json",
                          [field |-> "", value |-> "", text |-> text])
                     EXCEPT !.jsonInput = text]
           parsed == JsonParse(text)
           next == Spread(e.formData, OwnEntries(parsed.value))
       IN  editor' =
              IF parsed.ok
              THEN OnChange([e EXCEPT !.formData = next,
                                      !.jsonError = JsNull,
                                      !.lastUpdateRef = Stringify(next)],
                            next)
              ELSE [e EXCEPT !.jsonError = Str("JSON invalid")]
    /\ UNCHANGED <<callVars, crcVars, pairVars>>

\* The earlier text's effect on [formData, onChange].
SyncToParent ==
    /\ editor.mounted
    /\ editor.copy = 2
    /\ editor.pending
    /\ LET e == Handling(editor, "effect", NoEvent)
       IN  editor' =
              OnChange([e EXCEPT
                           !.jsonInput = StringifyIndented(e.formData),
                           !.pending = FALSE],
                       e.formData)
    /\ UNCHANGED <<callVars, crcVars, pairVars>>

\* handleChange(field, value) of the earlier text.
handleChange(field, value) ==
    /\ editor.mounted
    /\ editor.copy = 2
    /\ ~editor.pending
    /\ LET e == Handling(editor, "field",
                         [field |-> field, value |-> value, text |-> <<>>])
       IN  editor' = [e EXCEPT !.formData = Put(@, field, Str(value)),
                               !.pending = TRUE]
    /\ UNCHANGED <<callVars, crcVars, pairVars>>

\* handleJsonChange of the earlier text.
handleJsonChangeEarlier(text) ==
    /\ editor.mounted
    /\ editor.copy = 2
    /\ ~editor.pending
    /\ LET e == [Handling(editor, "json",
                          [field |-> "", value |-> "", text |-> text])
                     EXCEPT !.jsonInput = text]
           parsed == JsonParse(text)
       IN  editor' =
              IF parsed.ok
              THEN [e EXCEPT
                       !.formData = Spread(@, OwnEntries(parsed.value)),
                       !.jsonError = JsNull,
                       !.pending = TRUE]
              ELSE [e EXCEPT !.jsonError = Str("Invalid JSON format")]
    /\ UNCHANGED <<callVars, crcVars, pairVars>>

\* The parent's own setMetadata(prev => ({ ...prev, title })), which
\* reaches the component as a new initialData.
ParentSetMetadata ==
    /\ editor.mounted
    /\ ~editor.pending
    /\ Get(editor.initialData, "title") /= ModelTitle
    /\ LET e == Handling(editor, "parent", NoEvent)
       IN  editor' = [e EXCEPT !.initialData = Put(@, "title", ModelTitle),
                               !.pending = (e.copy = 1)]
    /\ UNCHANGED <<callVars, crcVars, pairVars>>

InitEditor ==
    /\ editor \in {Mounted(c, ParentMetadata) : c \in {1, 2}}
    /\ table = crcTable
    /\ calls = <<>>
    /\ base64Data = <<>>
    /\ metadata = EmptyMetadata
    /\ pc = "idle"
    /\ history = <<>>
    /\ bytes = <<>>
    /\ textChunks = <<>>
    /\ keyIdx = 0
    /\ pos = Wide(0)
    /\ parts = <<>>
    /\ inserted = FALSE
    /\ clicks = <<>>
    /\ CrcIdle

NextEditor ==
    \/ SyncFromParent
    \/ \E field \in FieldNames, value \in TypedValues :
          handleFieldChange(field, value)
    \/ \E text \in Texts(editor.jsonInput) : handleJsonChange(text)
    \/ SyncToParent
    \/ \E field \in FieldNames, value \in TypedValues :
          handleChange(field, value)
    \/ \E text \in Texts(editor.jsonInput) : handleJsonChangeEarlier(text)
    \/ ParentSetMetadata

SpecEditor == InitEditor /\ [][NextEditor]_vars

---------------------------------------------------------------------------
(* Reading a stream back, for the properties below.                        *)

RECURSIVE ParseFrom(_, _)
\* The complete chunks of stream b from 0-based offset p on, each as its
\* bytes (length, type, data, CRC), up to the first that is incomplete.
ParseFrom(b, p) ==
    IF p + 12 > Len(b) THEN <<>>
    ELSE LET n == GetUint32(b, p)
         IN  IF WideLess(Wide(Len(b)), WideAdd(Wide(p + 12), n)) THEN <<>>
             ELSE <<SubSeq(b, p + 1, p + 12 + WideVal(n))>>
                  \o ParseFrom(b, p + 12 + WideVal(n))

\* The chunks after the 8 signature bytes.
ChunksOf(b) == ParseFrom(b, 8)

\* The stream is 8 bytes followed by complete chunks and nothing else.
Framed(b) == Len(b) >= 8 /\ 8 + Len(Concat(ChunksOf(b))) = Len(b)

ChunkType(c) == SubSeq(c, 5, 8)
ChunkData(c) == SubSeq(c, 9, Len(c) - 4)
ChunkCrc(c) == SubSeq(c, Len(c) - 3, Len(c))

\* The stored CRC of chunk c is the CRC-32 of its type and data.
CrcOk(c) == ChunkCrc(c) = Uint32Bytes(crc32(SubSeq(c, 5, Len(c) - 4)))

\* A well-formed PNG: the signature, then complete chunks, the first IHDR.
WellFormedPng(b) ==
    /\ Framed(b)
    /\ SubSeq(b, 1, 8) = PngSignature
    /\ ChunksOf(b) /= <<>>
    /\ ChunkType(ChunksOf(b)[1]) = TypeIHDR

\* The call has ended, and what it delivered.
Done == pc = "done"
Delivered == clicks[Len(clicks)]
DeliveredBlob == Done /\ Delivered.kind = "blob"

\* The bytes of the delivered file: the blob's, or those the data URL's
\* base64 payload stands for.
DeliveredBytes ==
    IF Delivered.kind = "blob" THEN Delivered.data ELSE Atob(Delivered.data).bytes

\* The number of chunks of stream b of type 'tEXt'.
CountText(b) ==
    Cardinality({i \in 1..Len(ChunksOf(b)) : ChunkType(ChunksOf(b)[i]) = TypeText})

---------------------------------------------------------------------------
\* C1: for a well-formed PNG input and any metadata record the call delivers
\* a blob that starts with the input's 8 signature bytes and whose chunk
\* stream, read back, is the input's first chunk (IHDR), then the text chunks
\* as one run, then the input's remaining chunks, each byte-identical and in
\* the original order.
C1_RoundTrip ==
    (Done /\ WellFormedPng(bytes)) =>
        /\ Delivered.kind = "blob"
        /\ SubSeq(DeliveredBytes, 1, 8) = SubSeq(bytes, 1, 8)
        /\ Framed(DeliveredBytes)
        /\ ChunksOf(DeliveredBytes)
             = <<Head(ChunksOf(bytes))>> \o textChunks \o Tail(ChunksOf(bytes))
        /\ \A i \in 1..Len(textChunks) : ChunkType(textChunks[i]) = TypeText

C1_Witness ==
    /\ Done
    /\ WellFormedPng(bytes)
    /\ Len(ChunksOf(bytes)) = 3
    /\ Len(textChunks) = 3
    /\ history = <<>>

\* C2: when the input is a PNG whose chunks all carry a correct CRC, every
\* chunk of the delivered stream, passed through or inserted, stores the
\* CRC-32 of its type and data.
AllCrcOk(b) == Framed(b) /\ \A i \in 1..Len(ChunksOf(b)) : CrcOk(ChunksOf(b)[i])

C2_CrcInvariant ==
    (Done /\ Slice(bytes, 0, 8) = PngSignature /\ AllCrcOk(bytes)) =>
        /\ Delivered.kind = "blob"
        /\ AllCrcOk(DeliveredBytes)

C2_Witness ==
    /\ Done
    /\ bytes = MinimalPng
    /\ Len(textChunks) = 3
    /\ Len(ChunksOf(DeliveredBytes)) = 6

\* C3 (as claimed): when the first 8 bytes of the input are not the PNG
\* signature, the delivered stream equals the input and holds no inserted
\* text chunk.
C3_InvalidSignatureFallback ==
    (Done /\ Atob(base64Data).ok /\ Slice(bytes, 0, 8) /= PngSignature) =>
        DeliveredBytes = bytes

\* C4 (as claimed): when a chunk's declared length makes it extend past the
\* end of the input, the original bytes are delivered unchanged.
HasTruncatedChunk(b) ==
    LET p == 8 + Len(Concat(ChunksOf(b)))
    IN  /\ Len(b) >= 8
        /\ p + 4 <= Len(b)
        /\ WideLess(Wide(Len(b)), WideAdd(Wide(p + 12), GetUint32(b, p)))

C4_TruncatedChunkFallback ==
    (Done /\ Atob(base64Data).ok /\ HasTruncatedChunk(bytes)) =>
        DeliveredBytes = bytes

\* The keyword a field's text chunk carries; 'Keywords' is the key of the
\* commented-out assignment for the keywords field.
KeyKeywords == <<75, 101, 121, 119, 111, 114, 100, 115>>
KeyOf(f) ==
    CASE f = "title" -> KeyTitle
      [] f = "author" -> KeyAuthor
      [] f = "description" -> KeyDescription
      [] f = "keywords" -> KeyKeywords
      [] f = "copyright" -> KeyCopyright
      [] f = "date" -> KeyCreationTime

TypeITXt == <<105, 84, 88, 116>>
IsTextChunk(c) == ChunkType(c) \in {TypeText, TypeITXt}

\* The keyword of a text chunk: its data up to the first 0 byte.
KeywordOf(c) ==
    LET d == ChunkData(c)
        zeros == {i \in 1..Len(d) : d[i] = 0}
    IN  IF zeros = {} THEN d
        ELSE SubSeq(d, 1, (CHOOSE i \in zeros : \A j \in zeros : i <= j) - 1)

\* Chunk c is a text chunk for field f whose data ends with value v.
Carries(c, f, v) ==
    LET d == ChunkData(c)
        w == Utf8Encode(v)
    IN  /\ IsTextChunk(c)
        /\ KeywordOf(c) = KeyOf(f)
        /\ Len(d) >= Len(w)
        /\ SubSeq(d, Len(d) - Len(w) + 1, Len(d)) = w

\* Empty, or made of whitespace only.
IsBlank(v) == \A i \in 1..Len(v) : v[i] \in {9, 10, 11, 12, 13, 32}

\* C5 (as claimed): for every metadata field that is empty or whitespace
\* only, the delivered stream holds no text chunk with that field's keyword.
C5_FieldOmission ==
    (DeliveredBlob /\ WellFormedPng(bytes)) =>
        \A f \in FieldNames :
            IsBlank(metadata[f]) =>
                \A i \in 1..Len(ChunksOf(DeliveredBytes)) :
                    LET c == ChunksOf(DeliveredBytes)[i]
                    IN  ~(IsTextChunk(c) /\ KeywordOf(c) = KeyOf(f))

\* C6 (as claimed): for each of the six fields that is non-empty, exactly one
\* text chunk carrying that field's value is inserted into a PNG that has an
\* IHDR chunk.
C6_OneChunkPerField ==
    (DeliveredBlob /\ WellFormedPng(bytes) /\ history = <<>>) =>
        \A f \in FieldNames :
            metadata[f] /= <<>> =>
                Cardinality({i \in 1..Len(ChunksOf(DeliveredBytes)) :
                    Carries(ChunksOf(DeliveredBytes)[i], f, metadata[f])}) = 1

\* The scenario of C7: a first call on the minimal PNG with only title and
\* description non-empty.
Scenario ==
    /\ Done
    /\ history = <<>>
    /\ bytes = MinimalPng
    /\ \A f \in FieldNames :
          (metadata[f] /= <<>>) <=> f \in {"title", "description"}

\* The chunks of the delivered stream that are not chunks of the input.
NewChunks ==
    SelectSeq(ChunksOf(DeliveredBytes),
              LAMBDA c : \A i \in 1..Len(ChunksOf(bytes)) : ChunksOf(bytes)[i] /= c)

\* The chunks of the delivered stream that are chunks of the input.
KeptChunks ==
    SelectSeq(ChunksOf(DeliveredBytes),
              LAMBDA c : \E i \in 1..Len(ChunksOf(bytes)) : ChunksOf(bytes)[i] = c)

\* C7 (as claimed): in the scenario the output holds exactly two chunks that
\* are not in the input, with keywords Title and Description, and the IDAT
\* and IEND chunks are those of the input.
C7_ScenarioTwoChunks ==
    Scenario =>
        /\ Len(NewChunks) = 2
        /\ KeywordOf(NewChunks[1]) = KeyTitle
        /\ KeywordOf(NewChunks[2]) = KeyDescription
        /\ KeptChunks = <<IhdrChunk, IdatChunk, IendChunk>>

\* C7 (amended): in the scenario the output holds exactly three chunks that
\* are not in the input, with keywords Title, Description and Software, the
\* last with the value 'Link2Infographic AI'; the IDAT and IEND chunks are
\* those of the input.
C7_ScenarioThreeChunks ==
    Scenario =>
        /\ Delivered.kind = "blob"
        /\ Len(NewChunks) = 3
        /\ NewChunks[1] = TextChunk(KeyTitle, metadata.title)
        /\ NewChunks[2] = TextChunk(KeyDescription, metadata.description)
        /\ NewChunks[3] = TextChunk(KeySoftware, SoftwareValue)
        /\ KeptChunks = <<IhdrChunk, IdatChunk, IendChunk>>

C7_Witness == Scenario /\ metadata = ScenarioMetadata

\* C8 (as claimed): every text chunk the encoder creates has type 'iTXt' and
\* the data keyword, 0, compression flag 0, compression method 0, an empty
\* language tag and 0, an empty translated keyword and 0, the UTF-8 value.
C8_InternationalForm ==
    \A i \in 1..Len(textChunks) :
        /\ ChunkType(textChunks[i]) = TypeITXt
        /\ \E k \in 1..Len(KeywordEntries(metadata)) :
              ChunkData(textChunks[i])
                = Utf8Encode(KeywordEntries(metadata)[k][1])
                    \o <<0, 0, 0, 0, 0>>
                    \o Utf8Encode(KeywordEntries(metadata)[k][2])

\* C9: when a well-formed PNG is encoded and the result encoded again with
\* the same record, which yields k text chunks, the second output holds the
\* first output's IHDR, then the k new text chunks, then every other chunk
\* of the first output (its k text chunks included) byte-identical and in
\* order; it holds 2k text chunks more than the original image.
C9_ReEmbedAdditive ==
    (Done /\ Len(history) = 1 /\ WellFormedPng(history[1].input)) =>
        /\ bytes = history[1].output
        /\ textChunks = history[1].textChunks
        /\ Delivered.kind = "blob"
        /\ Framed(DeliveredBytes)
        /\ ChunksOf(DeliveredBytes)
             = <<Head(ChunksOf(bytes))>> \o textChunks \o Tail(ChunksOf(bytes))
        /\ SubSeq(ChunksOf(bytes), 2, 1 + Len(textChunks)) = textChunks
        /\ CountText(DeliveredBytes)
             = CountText(history[1].input) + 2 * Len(textChunks)

C9_Witness ==
    /\ Done
    /\ Len(history) = 1
    /\ history[1].input = MinimalPng
    /\ Len(textChunks) = 3
    /\ CountText(DeliveredBytes) = 6

\* C10: crc32 of the empty byte sequence is 0x00000000 and crc32 of the nine
\* bytes "123456789" is 0xCBF43926 (0xCBF4 = 52212, 0x3926 = 14630).
C10_CrcVectors ==
    crcPc = "returned" =>
        /\ crcBuf = <<>> => crcRet = [hi |-> 0, lo |-> 0]
        /\ crcBuf = CheckVector => crcRet = [hi |-> 52212, lo |-> 14630]
        /\ crcRet = crc32(crcBuf)

C10_Witness == crcPc = "returned" /\ crcBuf = CheckVector /\ crcI = 9

---------------------------------------------------------------------------
\* The stream b with the byte sequence t put in after its first k bytes.
InsertAt(b, k, t) == SubSeq(b, 1, k) \o t \o SubSeq(b, k + 1, Len(b))

\* The delivery is the annotated stream: every input byte in order, with the
\* text chunks, if anywhere, in one place.
DeliversAnnotated ==
    /\ Delivered.kind = "blob"
    /\ \/ Delivered.data = bytes
       \/ \E k \in 0..Len(bytes) :
              Delivered.data = InsertAt(bytes, k, Concat(textChunks))

\* The delivery is the original image: the data URL of the string as given.
DeliversOriginal == Delivered = [kind |-> "dataurl", data |-> base64Data]

\* C11: a call that has ended made exactly one delivery, either the
\* annotated stream (all input bytes in order plus the inserted chunks) or
\* the original data unchanged; and a call in which a step threw (it stands
\* in the catch block) has delivered nothing yet and delivers the original
\* data as its next and last step.
C11_BestEffort ==
    /\ [](Done => (Len(clicks) = 1 /\ (DeliversAnnotated \/ DeliversOriginal)))
    /\ [][pc = "catch" =>
            (clicks = <<>> /\ Done' /\ Len(clicks') = 1 /\ DeliversOriginal')]_vars

\* A call on base64 that decodes, whose chunk loop threw after the text chunks
\* had been pushed into `parts`, ended with the original data delivered.
C11_Witness ==
    /\ Done
    /\ Atob(base64Data).ok
    /\ inserted
    /\ Len(parts) > 1 + Len(textChunks)
    /\ DeliversOriginal

---------------------------------------------------------------------------
\* The 0-based offset at which the chunk read at offset p of stream b ends:
\* p + 12 + its declared length, or the end of the stream when that is less.
ChunkEnd(b, p) ==
    LET end == WideAdd(Wide(p + 12), GetUint32(b, p))
    IN  IF WideLess(end, Wide(Len(b))) THEN WideVal(end) ELSE Len(b)

RECURSIVE FirstIhdrEndFrom(_, _)
\* Following the declared lengths from offset p of stream b: the offset at
\* which the first chunk of type IHDR ends, or -1 when there is none before
\* the stream runs out.
FirstIhdrEndFrom(b, p) ==
    IF p + 4 > Len(b) THEN -1
    ELSE IF TypeAt(b, p) = TypeIHDR THEN ChunkEnd(b, p)
    ELSE FirstIhdrEndFrom(b, ChunkEnd(b, p))

\* The number of complete chunks of stream b of type IHDR.
CountIhdr(b) ==
    Cardinality({i \in 1..Len(ChunksOf(b)) : ChunkType(ChunksOf(b)[i]) = TypeIHDR})

\* C13: however many IHDR chunks the input has, a delivered blob is the input
\* with the text chunks put in once, right after the first IHDR chunk, and
\* nowhere else (the input itself when it has no IHDR chunk); and inside the
\* chunk loop the flag `inserted`, once true, stays true and each further
\* iteration pushes one part only.
C13_SingleInsertion ==
    /\ [](DeliveredBlob =>
            LET e == FirstIhdrEndFrom(bytes, 8)
            IN  /\ inserted = (e /= -1)
                /\ Delivered.data =
                     IF e = -1 THEN bytes
                     ELSE InsertAt(bytes, e, Concat(textChunks)))
    /\ [][(pc = "loop" /\ inserted) =>
            (inserted' /\ Len(parts') <= Len(parts) + 1)]_vars

\* A blob was delivered for an input with three IHDR chunks.
C13_Witness ==
    /\ DeliveredBlob
    /\ Framed(bytes)
    /\ CountIhdr(bytes) = 3
    /\ Len(textChunks) >= 2
    /\ CountIhdr(Delivered.data) = 3

---------------------------------------------------------------------------
\* The order in which the keywords are to be emitted.
EmissionOrder ==
    <<KeyTitle, KeyAuthor, KeyDescription, KeyCopyright, KeyCreationTime,
      KeySoftware>>

\* The place of keyword k in that order, 0 for any other keyword.
RankOf(k) ==
    IF \E i \in 1..Len(EmissionOrder) : EmissionOrder[i] = k
    THEN CHOOSE i \in 1..Len(EmissionOrder) : EmissionOrder[i] = k
    ELSE 0

\* C14: whatever the field values, the text chunks built by a call carry
\* keywords in the order Title, Author, Description, Copyright, Creation
\* Time, Software (those of omitted entries missing), and a delivered blob
\* with an insertion holds them as one run in that order.
C14_EmissionOrder ==
    /\ \A i, j \in 1..Len(textChunks) :
          i < j => (0 < RankOf(KeywordOf(textChunks[i]))
                    /\ RankOf(KeywordOf(textChunks[i]))
                         < RankOf(KeywordOf(textChunks[j])))
    /\ (DeliveredBlob /\ inserted) =>
          \E k \in 0..Len(bytes) :
              Delivered.data = InsertAt(bytes, k, Concat(textChunks))

\* A blob was delivered with chunks for Title, Creation Time and Software.
C14_Witness ==
    /\ DeliveredBlob
    /\ inserted
    /\ metadata.title = ValCjk
    /\ metadata.date = ValDemo
    /\ Len(textChunks) = 3
    /\ KeywordOf(textChunks[2]) = KeyCreationTime

---------------------------------------------------------------------------
\* The indices of the chunks of stream b whose stored CRC is not the CRC-32
\* of their type and data.
BadCrcAt(b) == {i \in 1..Len(ChunksOf(b)) : ~CrcOk(ChunksOf(b)[i])}

\* C15: when a chunk of a framed input stores a wrong CRC, the call does not
\* fall back: it delivers a blob in which every input chunk, the one with
\* the wrong CRC included, stands byte for byte, in the input's order, the
\* text chunks being the only addition.
C15_BadCrcVerbatim ==
    (Done /\ Framed(bytes) /\ BadCrcAt(bytes) /= {}) =>
        /\ Delivered.kind = "blob"
        /\ Framed(Delivered.data)
        /\ \E k \in 0..Len(ChunksOf(bytes)) :
              /\ ChunksOf(Delivered.data)
                   = SubSeq(ChunksOf(bytes), 1, k)
                     \o (IF inserted THEN textChunks ELSE <<>>)
                     \o SubSeq(ChunksOf(bytes), k + 1, Len(ChunksOf(bytes)))
              /\ \A i \in BadCrcAt(bytes) :
                    LET j == IF i <= k \/ ~inserted THEN i
                             ELSE i + Len(textChunks)
                    IN  /\ ChunksOf(Delivered.data)[j] = ChunksOf(bytes)[i]
                        /\ j \in BadCrcAt(Delivered.data)

\* The PNG whose IDAT chunk stores a wrong CRC was delivered as a blob with
\* three text chunks ahead of that chunk.
C15_Witness ==
    /\ DeliveredBlob
    /\ bytes = BadCrcPng
    /\ Len(textChunks) = 3
    /\ BadCrcAt(Delivered.data) = {5}

---------------------------------------------------------------------------
\* The indices of the chunks of stream b of type IEND that are not the last.
InnerIendAt(b) ==
    {i \in 1..(Len(ChunksOf(b)) - 1) : ChunkType(ChunksOf(b)[i]) = TypeIEND}

\* C16: a chunk of type IEND does not end the parse.  For a framed input
\* with chunks behind an IEND chunk the delivered blob holds every input
\* chunk, those behind the IEND chunk too, in the input's order and ending
\* with the input's last chunk unless the text chunks come last; and while
\* the cursor is below the length of the input the call does not deliver.
C16_IendNotStop ==
    /\ []((Done /\ Framed(bytes) /\ InnerIendAt(bytes) /= {}) =>
            LET ic == ChunksOf(bytes)
                oc == ChunksOf(Delivered.data)
                tc == IF inserted THEN textChunks ELSE <<>>
            IN  /\ Delivered.kind = "blob"
                /\ Framed(Delivered.data)
                /\ Len(oc) = Len(ic) + Len(tc)
                /\ SelectSeq(oc, LAMBDA c : \A i \in 1..Len(tc) : tc[i] /= c)
                     = SelectSeq(ic, LAMBDA c : \A i \in 1..Len(tc) : tc[i] /= c)
                /\ \E k \in 1..Len(ic) :
                      oc = SubSeq(ic, 1, k) \o tc \o SubSeq(ic, k + 1, Len(ic)))
    /\ [][(pc = "loop" /\ WideLess(pos, Wide(Len(bytes)))) => pc' /= "done"]_vars

\* A blob was delivered for an input that starts with an IEND chunk followed
\* by an IHDR chunk and an IDAT chunk.
C16_Witness ==
    /\ DeliveredBlob
    /\ Framed(bytes)
    /\ Len(ChunksOf(bytes)) = 3
    /\ ChunkType(ChunksOf(bytes)[1]) = TypeIEND
    /\ ChunkType(ChunksOf(bytes)[2]) = TypeIHDR
    /\ ChunksOf(Delivered.data)[Len(ChunksOf(Delivered.data))] = IdatChunk

---------------------------------------------------------------------------
\* Part c of `parts` is a slice whose type field reads IHDR.
IsIhdrPart(c) == Len(c) >= 8 /\ SubSeq(c, 5, 8) = TypeIHDR

\* `parts` without the text chunks pushed after the first IHDR slice: the
\* signature slice and the slices of the chunks read so far.
InputParts ==
    IF ~inserted THEN parts
    ELSE LET j == CHOOSE i \in 2..Len(parts) :
                      /\ IsIhdrPart(parts[i])
                      /\ \A h \in 2..(i - 1) : ~IsIhdrPart(parts[h])
         IN  SubSeq(parts, 1, j)
             \o SubSeq(parts, j + Len(textChunks) + 1, Len(parts))

RECURSIVE DeclaredFrom(_, _)
\* The sum of 12 + declared length over the chunk slices ps[i], ps[i+1], ...
DeclaredFrom(ps, i) ==
    IF i > Len(ps) THEN Wide(0)
    ELSE WideAdd(WideAdd(Wide(12), GetUint32(ps[i], 0)), DeclaredFrom(ps, i + 1))

\* The number of bytes of the input the cursor has passed.
Consumed == IF WideLess(pos, Wide(Len(bytes))) THEN WideVal(pos) ELSE Len(bytes)

\* C17: at the start of every iteration of the chunk loop, and when it is
\* left, the cursor is 8 plus the sum of 12 + declared length over the chunks
\* read so far, and the parts other than the inserted text chunks concatenate
\* to the first min(cursor, length) bytes of the input; an iteration moves
\* the cursor by exactly 12 plus the length declared at the cursor.
C17_CursorInvariant ==
    /\ [](pc = "loop" =>
            /\ pos = WideAdd(Wide(8), DeclaredFrom(InputParts, 2))
            /\ Concat(InputParts) = SubSeq(bytes, 1, Consumed))
    /\ [][(pc = "loop" /\ pc' = "loop") =>
            pos' = WideAdd(pos, WideAdd(Wide(12), GetUint32(bytes, WideVal(pos))))]_vars

\* The loop stands behind a chunk that declared 2^32 - 1 data bytes, after
\* an insertion and three chunks read before that one.
C17_Witness ==
    /\ pc = "loop"
    /\ inserted
    /\ Len(InputParts) = 5
    /\ pos.hi >= 65536
    /\ Consumed = Len(bytes)

---------------------------------------------------------------------------
\* The iterations of the chunk loop begun so far: one per chunk slice, and
\* the one that threw when the call stands in the catch block.
Iterations ==
    IF parts = <<>> THEN 0
    ELSE Len(InputParts) - 1 + (IF pc = "catch" THEN 1 ELSE 0)

\* ceil((n - 8) / 12) for an input of n bytes, 0 when n < 8.
IterationBound == (Len(bytes) + 3) \div 12

\* C18: every iteration of the chunk loop moves the cursor up by at least
\* 12, without wrapping, whatever length up to 2^32 - 1 the chunk declares;
\* the loop begins at most ceil((n - 8) / 12) iterations on an input of n
\* bytes; and every call that has started reaches a delivery.
C18_Termination ==
    /\ [][(pc = "loop" /\ pc' = "loop") =>
            WideLess(WideAdd(pos, Wide(11)), pos')]_vars
    /\ [](pc \in {"loop", "catch", "done"} => Iterations <= IterationBound)
    /\ (pc = "decode") ~> Done

\* A blob was delivered after four iterations on 54 bytes, the last on a
\* chunk that declared 2^32 - 1 data bytes.
C18_Witness ==
    /\ DeliveredBlob
    /\ pos.hi >= 65536
    /\ Iterations = 4
    /\ Iterations = IterationBound

---------------------------------------------------------------------------
\* The wide number w as 4 bytes, most significant first.
BigEndian(w) == <<w.hi \div 256, w.hi % 256, w.lo \div 256, w.lo % 256>>

\* Chunk c frames payload d under type t: 12 + n bytes, the length n
\* big-endian, the type, the payload, and the big-endian CRC-32 of bytes
\* 4 .. 8 + n.
Frames(c, t, d) ==
    LET n == Len(d)
    IN  /\ Len(c) = 12 + n
        /\ SubSeq(c, 1, 4) = BigEndian(Wide(n))
        /\ SubSeq(c, 5, 8) = t
        /\ SubSeq(c, 9, 8 + n) = d
        /\ SubSeq(c, 9 + n, 12 + n) = BigEndian(crc32(SubSeq(c, 5, 8 + n)))

\* C19: the chunk createChunk returned last in the keyword loop frames the
\* payload it was given (the data of one of the entries visited) under the
\* type 'tEXt': 12 + n bytes for a payload of n bytes, n in 4 bytes
\* big-endian, the 4 type bytes, the payload, the CRC-32 of bytes 4 .. 8 + n
\* big-endian.
C19_ChunkFraming ==
    (pc = "keywords" /\ textChunks /= <<>>) =>
        \E k \in 1..(keyIdx - 1) :
            Frames(textChunks[Len(textChunks)], TypeText,
                   TextChunkData(KeywordEntries(metadata)[k][1],
                                 KeywordEntries(metadata)[k][2]))

\* The keyword loop has just built the chunk of a 300-letter title: a
\* payload of 306 bytes, whose length takes two bytes.
C19_Witness ==
    /\ pc = "keywords"
    /\ keyIdx = 2
    /\ metadata.title = ValLong
    /\ Len(textChunks) = 1
    /\ Len(textChunks[1]) = 318
    /\ SubSeq(textChunks[1], 1, 4) = <<0, 0, 1, 50>>

---------------------------------------------------------------------------
\* The Latin-1 encoding of a string: one byte per character, the character's
\* code; a character above U+00FF has none, a single "?" stands for it.
Latin1(v) == [i \in 1..Len(v) |-> IF v[i] < 256 THEN v[i] ELSE 63]

\* C20 (as claimed): the data of the tEXt chunk built last in the keyword
\* loop is the keyword, one 0 byte and the Latin-1 encoding of the value,
\* one byte per character, so that its length is the keyword's length + 1 +
\* the number of characters of the value, non-ASCII characters included.
C20_PlainFormPayload ==
    (pc = "keywords" /\ textChunks /= <<>>) =>
        \E k \in 1..(keyIdx - 1) :
            LET key == KeywordEntries(metadata)[k][1]
                value == KeywordEntries(metadata)[k][2]
                data == ChunkData(textChunks[Len(textChunks)])
            IN  /\ ChunkType(textChunks[Len(textChunks)]) = TypeText
                /\ Len(data) = Len(key) + 1 + Len(value)
                /\ data = Latin1(key) \o <<0>> \o Latin1(value)

---------------------------------------------------------------------------
RECURSIVE RunAlone(_)
\* The locals of a call at its end when it runs alone from locals st.
RunAlone(st) ==
    IF st.pc = "done" THEN st
    ELSE Eval(LAMBDA n : RunAlone(n), CallStep(st))

\* C12: with the steps of two calls interleaved in any way, the CRC table
\* stays as the module's initialisation built it, every step changes the
\* locals of one call only, and each call that has ended has made the
\* deliveries it makes when it runs alone on its arguments.
C12_IndependentCalls ==
    /\ [](table = crcTable)
    /\ [][/\ table' = table
          /\ \E c \in CallIds : \A d \in CallIds \ {c} : calls'[d] = calls[d]]_vars
    /\ [](\A c \in CallIds :
            calls[c].pc = "done" =>
                calls[c].clicks
                  = RunAlone(StartOf(calls[c].base64Data,
                                     calls[c].metadata)).clicks)

\* Call 1 has delivered its blob while call 2, on another image and with
\* other metadata, stands in its chunk loop after its insertion.
C12_Witness ==
    /\ calls /= <<>>
    /\ calls[1].pc = "done"
    /\ calls[1].clicks /= <<>>
    /\ calls[1].clicks[1].kind = "blob"
    /\ calls[2].pc = "loop"
    /\ calls[2].inserted
    /\ calls[1].base64Data /= calls[2].base64Data
    /\ calls[1].metadata /= calls[2].metadata

---------------------------------------------------------------------------
(* The reference construction of the table, on unsigned 32-bit values held *)
(* as wide numbers.                                                        *)

RECURSIVE RefXor(_, _)
\* a XOR b on naturals, bit by bit.
RefXor(a, b) ==
    IF a = 0 THEN b
    ELSE IF b = 0 THEN a
    ELSE ((a + b) % 2) + 2 * RefXor(a \div 2, b \div 2)

\* w >> 1 on an unsigned 32-bit value.
RefShr(w) == [hi |-> w.hi \div 2, lo |-> (w.lo \div 2) + (w.hi % 2) * 32768]

\* One step: if the low bit is set then (c >> 1) XOR 0xEDB88320 else c >> 1.
RefStep(w) ==
    IF w.lo % 2 = 1
    THEN [hi |-> RefXor(RefShr(w).hi, 60856), lo |-> RefXor(RefShr(w).lo, 33568)]
    ELSE RefShr(w)

\* The step applied 8 times to n.
RefEntry(n) ==
    RefStep(RefStep(RefStep(RefStep(
        RefStep(RefStep(RefStep(RefStep(Wide(n)))))))))

\* The 32-bit integer x read as an unsigned value.
UnsignedOf(x) == [hi |-> (x \div 65536) % 65536, lo |-> x % 65536]

\* C21: every entry the initialisation has written, read as an unsigned
\* 32-bit value, is the reference step applied 8 times to its index; when
\* the loop is left the table has exactly the 256 entries 0..255, entry 0
\* is 0, and it is the table the encoder reads.
C21_TableReference ==
    /\ \A n \in DOMAIN table : UnsignedOf(table[n]) = RefEntry(n)
    /\ crcPc = "built" =>
          /\ DOMAIN table = 0..255
          /\ table[0] = 0
          /\ table = crcTable

\* The table is complete; entry 128 is the polynomial 0xEDB88320, held as a
\* negative integer, and entry 255 is 0x2D02EF8D.
C21_Witness ==
    /\ crcPc = "built"
    /\ table[128] < 0
    /\ UnsignedOf(table[128]) = [hi |-> 60856, lo |-> 33568]
    /\ UnsignedOf(table[255]) = [hi |-> 11522, lo |-> 61325]

---------------------------------------------------------------------------
\* C22: while crc32 folds, the accumulator is a signed 32-bit integer and
\* the index it reads the table at, (crc XOR byte) AND 0xFF, is one of
\* 0..255; the value it returns is an integer in 0 .. 2^32 - 1, never
\* negative.
C22_ResultRange ==
    /\ crcAcc \div 65536 \in -32768..32767
    /\ (crcPc = "loop" /\ crcI < Len(crcBuf)) =>
          /\ Xor32(crcAcc, crcBuf[crcI + 1]) % 256 \in 0..255
          /\ Xor32(crcAcc, crcBuf[crcI + 1]) % 256 \in DOMAIN table
    /\ crcPc = "returned" =>
          /\ crcRet.hi \in 0..65535
          /\ crcRet.lo \in 0..65535

\* crc32 returned 0xCBF43926 for "123456789": the complemented accumulator
\* is negative as a signed integer, the value returned is above 2^31.
C22_Witness ==
    /\ crcPc = "returned"
    /\ crcBuf = CheckVector
    /\ Xor32(crcAcc, -1) < 0
    /\ crcRet.hi >= 32768

---------------------------------------------------------------------------
RECURSIVE StopFrom(_, _)
\* Following the declared lengths from offset p of stream b: the first
\* offset with fewer than 4 bytes left (the end of the stream when a chunk
\* reaches or passes it).
StopFrom(b, p) == IF p + 4 > Len(b) THEN p ELSE StopFrom(b, ChunkEnd(b, p))

\* The bytes left at the offset where the cursor stops: 0, or 1 to 3 bytes
\* of a partial chunk header.
TrailingBytes(b) == IF StopFrom(b, 8) < Len(b) THEN Len(b) - StopFrom(b, 8) ELSE 0

\* C23: when the cursor stops with 1 to 3 bytes left before the end of the
\* input, the call delivers no blob: its one delivery is the data URL of the
\* base64 string as given.
C23_PartialHeader ==
    (Done /\ Atob(base64Data).ok /\ TrailingBytes(bytes) \in 1..3) =>
        /\ Len(clicks) = 1
        /\ Delivered.kind = "dataurl"
        /\ Delivered.data = base64Data

\* The minimal PNG followed by 3 stray bytes ended in the fallback, after
\* the text chunks had been pushed into `parts`.
C23_Witness ==
    /\ Done
    /\ bytes = MinimalPng \o <<0, 0, 0>>
    /\ TrailingBytes(bytes) = 3
    /\ inserted
    /\ Delivered.kind = "dataurl"

---------------------------------------------------------------------------
\* Following the declared lengths, no chunk of stream b has type IHDR.
NoIhdr(b) == FirstIhdrEndFrom(b, 8) = -1

\* C24 (as claimed): when no chunk of the input has type IHDR, the call
\* ends with `inserted` false and delivers a blob equal to the input,
\* without the fallback.
C24_NoAnchor ==
    (Done /\ Atob(base64Data).ok /\ NoIhdr(bytes)) =>
        /\ ~inserted
        /\ Delivered.kind = "blob"
        /\ Delivered.data = bytes

\* C24 (amended): when no chunk of the input has type IHDR and the cursor
\* does not stop on a partial chunk header, the call ends with `inserted`
\* false and delivers a blob equal to the input, without the fallback; when
\* it does stop on a partial header, `inserted` is false as well and the
\* fallback delivers the base64 string as given.
C24_NoAnchorNoThrow ==
    (Done /\ Atob(base64Data).ok /\ NoIhdr(bytes)) =>
        /\ ~inserted
        /\ Len(clicks) = 1
        /\ IF TrailingBytes(bytes) = 0
           THEN Delivered.kind = "blob" /\ Delivered.data = bytes
           ELSE Delivered.kind = "dataurl" /\ Delivered.data = base64Data

\* A blob equal to the input was delivered for a PNG signature followed by
\* three chunks none of which is IHDR, with three text chunks built and
\* not used.
C24_Witness ==
    /\ DeliveredBlob
    /\ NoIhdr(bytes)
    /\ Slice(bytes, 0, 8) = PngSignature
    /\ Len(ChunksOf(bytes)) = 3
    /\ Len(textChunks) = 3
    /\ Delivered.data = bytes

---------------------------------------------------------------------------
\* The fields that have an entry in `keywords`, and those of them that are
\* not the empty string in record m.
EntryFields == {"title", "author", "description", "copyright", "date"}
FilledFields(m) == {f \in EntryFields : m[f] /= <<>>}

---------------------------------------------------------------------------
\* The number of bytes of string v in UTF-8: 1, 2 or 3 per code unit by its
\* range, a surrogate pair 4 in all.
ByteLength(v) ==
    Len(v)
    + Cardinality({i \in 1..Len(v) : v[i] >= 128})
    + Cardinality({i \in 1..Len(v) : v[i] >= 2048})
    - 2 * Cardinality({i \in 1..(Len(v) - 1) :
                          IsHighSurrogate(v[i]) /\ IsLowSurrogate(v[i + 1])})

RECURSIVE EmittedBytesFrom(_, _)
\* The sum, over the entries es[i], es[i+1], ... with a non-empty value, of
\* 12 + keyword bytes + 1 + value bytes.
EmittedBytesFrom(es, i) ==
    IF i > Len(es) THEN 0
    ELSE (IF es[i][2] = <<>> THEN 0
          ELSE 12 + ByteLength(es[i][1]) + 1 + ByteLength(es[i][2]))
         + EmittedBytesFrom(es, i + 1)

\* C26: for a framed input of n bytes that holds an IHDR chunk, the blob
\* delivered has n + the sum over the emitted (keyword, value) pairs of
\* 12 + keyword bytes + 1 + value bytes, and it is the input with those
\* bytes put in at one place: no input byte is dropped or duplicated.
C26_OutputLength ==
    (DeliveredBlob /\ Framed(bytes) /\ ~NoIhdr(bytes)) =>
        /\ Len(Delivered.data)
             = Len(bytes) + EmittedBytesFrom(KeywordEntries(metadata), 1)
        /\ \E k \in 8..Len(bytes) :
              /\ SubSeq(Delivered.data, 1, k) = SubSeq(bytes, 1, k)
              /\ SubSeq(Delivered.data,
                        k + 1 + EmittedBytesFrom(KeywordEntries(metadata), 1),
                        Len(Delivered.data))
                   = SubSeq(bytes, k + 1, Len(bytes))

\* The minimal PNG, 67 bytes, with the two-character CJK title came out 64
\* bytes longer: 24 for Title and 40 for Software.
C26_Witness ==
    /\ DeliveredBlob
    /\ bytes = MinimalPng
    /\ history = <<>>
    /\ metadata = [EmptyMetadata EXCEPT !.title = ValCjk]
    /\ Len(Delivered.data) = 67 + 64

---------------------------------------------------------------------------
\* C27: a call triggers exactly one download.  Until it has ended it has
\* triggered none (so the catch block is entered only when no blob was
\* clicked), and when it has ended it has triggered one, of the blob or of
\* the data URL.
C27_OneDelivery ==
    /\ pc \in {"decode", "keywords", "loop", "catch"} => clicks = <<>>
    /\ Done =>
          /\ Len(clicks) = 1
          /\ clicks[1].kind \in {"blob", "dataurl"}

\* A call on a string that is not base64 ended with the one click of the
\* fallback.
C27_Witness ==
    /\ Done
    /\ ~Atob(base64Data).ok
    /\ Len(clicks) = 1
    /\ clicks[1].kind = "dataurl"

---------------------------------------------------------------------------
\* C28: the deliveries of a call are a function of its two arguments.  Every
\* call that has ended, the first of a chain or one that follows earlier
\* calls, has made the deliveries that a call run alone from fresh locals on
\* the same base64 string and the same record makes; and when an earlier
\* call of the chain was given the same bytes (the record is the same
\* throughout), it delivered the same bytes.
C28_Deterministic ==
    Done =>
        /\ clicks = RunAlone(StartOf(base64Data, metadata)).clicks
        /\ \A h \in 1..Len(history) :
              (DeliveredBlob /\ history[h].input = bytes) =>
                  history[h].output = Delivered.data

\* A call that followed an earlier call ended with a blob.
C28_Witness ==
    /\ Done
    /\ history /= <<>>
    /\ DeliveredBlob
    /\ Len(textChunks) > 0

\* A second call was given the bytes the first was given.
C28_SameInputWitness ==
    /\ Done
    /\ DeliveredBlob
    /\ \E h \in 1..Len(history) : history[h].input = bytes

---------------------------------------------------------------------------
\* The record `new` is the record `old` with the keys of the parsed value
\* merged over it: every key of a parsed object holds the parsed value,
\* every other key of `old` holds what it held, and an object adds no key
\* that is in neither.
MergedOver(old, value, new) ==
    LET parsedKeys == IF value.t = "obj" THEN Keys(value.v) ELSE {}
    IN  /\ \A k \in parsedKeys : Get(new, k) = Get(value.v, k)
        /\ \A k \in Keys(old) \ parsedKeys : Get(new, k) = Get(old, k)
        /\ Keys(old) \subseteq Keys(new)
        /\ value.t = "obj" => Keys(new) = Keys(old) \cup parsedKeys

\* C29: a call of handleJsonChange, in either text of the component, puts
\* the typed text in the box; when the text does not parse it sets the
\* error, leaves the form record and the parent's record as they were,
\* notifies nobody and leaves no effect due that would; when the text
\* parses it clears the error and the form record becomes the former one
\* with the parsed keys merged over it.
C29_InvalidJsonRejected ==
    [][(editor'.mounted /\ editor'.last = "json") =>
          LET text == editor'.event.text
              parsed == JsonParse(text)
          IN  /\ editor'.jsonInput = text
              /\ ~parsed.ok =>
                    /\ editor'.jsonError /= JsNull
                    /\ editor'.formData = editor.formData
                    /\ editor'.initialData = editor.initialData
                    /\ editor'.notified = <<>>
                    /\ ~editor'.pending
              /\ parsed.ok =>
                    /\ editor'.jsonError = JsNull
                    /\ MergedOver(editor.formData, parsed.value,
                                  editor'.formData)]_vars

\* In the current text a text that parses was typed right after one that did
\* not (no effect ran in between): the error is cleared again, and the form
\* holds a merged key.
C29_Witness ==
    /\ editor.mounted
    /\ editor.copy = 1
    /\ editor.last = "json"
    /\ editor.cause = "json"
    /\ JsonParse(editor.event.text).ok
    /\ editor.jsonError = JsNull
    /\ Get(editor.formData, "rating") = JsTrue

\* A text that does not parse was typed after a merge of {"title": "B"}:
\* the error is set and form and parent still hold the merged title.
C29_RejectedWitness ==
    /\ editor.mounted
    /\ editor.last = "json"
    /\ ~JsonParse(editor.event.text).ok
    /\ editor.jsonError /= JsNull
    /\ Get(editor.formData, "title") = Str("B")
    /\ Get(editor.initialData, "title") = Str("B")

---------------------------------------------------------------------------
\* C30: a call of handleFieldChange(field, value) notifies the parent once,
\* with a record of the form record's keys in which the named field holds
\* the new value and every other key what the form held before the call;
\* and when the parent has passed that record back as initialData, the
\* effect that runs next changes nothing of the component (form, box, ref,
\* error), notifies nobody and leaves no effect due.
C30_FieldEdit ==
    /\ [][(editor'.mounted /\ editor'.copy = 1 /\ editor'.last = "field") =>
             /\ Len(editor'.notified) = 1
             /\ Keys(editor'.notified[1]) = Keys(editor.formData)
             /\ \A k \in Keys(editor.formData) :
                   Get(editor'.notified[1], k)
                     = IF k = editor'.event.field
                       THEN Str(editor'.event.value)
                       ELSE Get(editor.formData, k)
             /\ editor'.initialData = editor'.notified[1]]_vars
    /\ [][(/\ editor.mounted
           /\ editor.copy = 1
           /\ editor.last = "field"
           /\ editor.initialData = editor.notified[1]
           /\ editor'.last = "effect") =>
             /\ editor'.formData = editor.formData
             /\ editor'.jsonInput = editor.jsonInput
             /\ editor'.lastUpdateRef = editor.lastUpdateRef
             /\ editor'.jsonError = editor.jsonError
             /\ editor'.initialData = editor.initialData
             /\ editor'.notified = <<>>
             /\ ~editor'.pending]_vars

\* The effect has run after an edit of the author field.
C30_Witness ==
    /\ editor.mounted
    /\ editor.copy = 1
    /\ editor.last = "effect"
    /\ editor.cause = "field"
    /\ Get(editor.formData, "author") = Str("A")
    /\ editor.initialData = editor.formData
    /\ editor.lastUpdateRef = Stringify(editor.formData)

====
